---- MODULE Spec2Model ----
(* Klotski board (models/game/board.rs), its move generator and the        *)
(* parallel breadth-first solver (services/solver.rs).                     *)
EXTENDS Integers, Sequences, FiniteSets, TLC

\* ---------------------------------------------------------------- constants
ROWS == 5
COLS == 4
MIN_EMPTY_CELLS == 2
WINNING_ROW == 3
WINNING_COL == 1
NUM_THREADS == 4

WINNING_BLOCK == "TwoByTwo"
MAX_ROW == ROWS - 1
MAX_COL == COLS - 1

None == "None"
\* Option::None for record-valued options (positions, blocks, boards)
Nil == [nil |-> TRUE]
Shapes == {"OneByOne", "OneByTwo", "TwoByOne", "TwoByTwo"}
States == {"Building", "ReadyToSolve", "Solving", "Solved"}
Cells == 0 .. (ROWS * COLS - 1)

\* ------------------------------------------------------------------- bounds
\* number of mutation-API calls explored from each initial board
MaxOps == 3

\* number of successive move_block calls whose undoing is checked
MaxMoves == 2

\* iterations of the randomizer's while loop that are followed
MaxIterations == 16

\* ------------------------------------------------------------ value types
rows(block) == IF block \in {"OneByOne", "OneByTwo"} THEN 1 ELSE 2

cols(block) == IF block \in {"OneByOne", "TwoByOne"} THEN 1 ELSE 2

\* Block::size: the number of cells a shape covers
size(block) == rows(block) * cols(block)

PositionNew(row, col) ==
    IF row >= 0 /\ col >= 0 /\ row <= MAX_ROW /\ col <= MAX_COL
    THEN [row |-> row, col |-> col]
    ELSE Nil

\* Position::move_by: both coordinates are assigned only after both checks
PositionMoveBy(p, rd, cd) ==
    LET new_row == p.row + rd
        new_col == p.col + cd
    IN  IF new_row < 0 \/ new_col < 0 \/ new_row > MAX_ROW \/ new_col > MAX_COL
        THEN [pos |-> p, res |-> "BlockPlacementInvalid"]
        ELSE [pos |-> [row |-> new_row, col |-> new_col], res |-> "Ok"]

PositionedNew(block, min_row, min_col) ==
    LET min_position == PositionNew(min_row, min_col)
        max_position == PositionNew(min_row + rows(block) - 1, min_col + cols(block) - 1)
    IN  IF min_position = Nil \/ max_position = Nil
        THEN Nil
        ELSE [block |-> block, min_position |-> min_position, max_position |-> max_position]

\* the cells of the rectangle spanned by min_position and max_position
range(pb) ==
    { <<i, j>> : i \in pb.min_position.row .. pb.max_position.row,
                 j \in pb.min_position.col .. pb.max_position.col }

StepALL == << "Up", "Down", "Left", "Right" >>

row_diff(step) == CASE step = "Up" -> -1 [] step = "Down" -> 1 [] OTHER -> 0

col_diff(step) == CASE step = "Left" -> -1 [] step = "Right" -> 1 [] OTHER -> 0

opposite(step) ==
    CASE step = "Up" -> "Down" [] step = "Down" -> "Up"
      [] step = "Left" -> "Right" [] step = "Right" -> "Left"

\* Positioned::do_step: min_position is assigned before max_position is
\* computed, so a failure on max_position leaves min_position translated.
do_step(pb, step) ==
    LET new_min == PositionNew(pb.min_position.row + row_diff(step),
                               pb.min_position.col + col_diff(step))
        new_max == PositionNew(pb.max_position.row + row_diff(step),
                               pb.max_position.col + col_diff(step))
    IN  IF new_min = Nil
        THEN [pb |-> pb, res |-> "BlockPlacementInvalid"]
        ELSE IF new_max = Nil
        THEN [pb |-> [pb EXCEPT !.min_position = new_min], res |-> "BlockPlacementInvalid"]
        ELSE [pb |-> [pb EXCEPT !.min_position = new_min, !.max_position = new_max],
              res |-> "Ok"]

undo_step(pb, step) == do_step(pb, opposite(step))

\* Positioned::move_by: translation of the rectangle; the value is left
\* unchanged when the translated rectangle would leave the grid.
move_by(pb, rd, cd) ==
    LET mn == PositionMoveBy(pb.min_position, rd, cd)
        mx == PositionMoveBy(pb.max_position, rd, cd)
    IN  IF mn.res # "Ok" \/ mx.res # "Ok"
        THEN [pb |-> pb, res |-> "BlockPlacementInvalid"]
        ELSE [pb |-> [pb EXCEPT !.min_position = mn.pos, !.max_position = mx.pos],
              res |-> "Ok"]

Abs(x) == IF x < 0 THEN -x ELSE x

FlatMoveNew(rd, cd) ==
    IF Abs(rd) + Abs(cd) > MIN_EMPTY_CELLS THEN Nil
    ELSE [row_diff |-> rd, col_diff |-> cd]

RECURSIVE SumRow(_), SumCol(_)
SumRow(steps) == IF steps = <<>> THEN 0 ELSE row_diff(Head(steps)) + SumRow(Tail(steps))
SumCol(steps) == IF steps = <<>> THEN 0 ELSE col_diff(Head(steps)) + SumCol(Tail(steps))

from_steps(steps) == [row_diff |-> SumRow(steps), col_diff |-> SumCol(steps)]

\* mutant: the two displacement fields are stored swapped
FlatBoardMoveNewSwapped(block_idx, move_) ==
    [block_idx |-> block_idx, row_diff |-> move_.col_diff, col_diff |-> move_.row_diff]

FlatBoardMoveNew(block_idx, move_) ==
    [block_idx |-> block_idx, row_diff |-> move_.row_diff, col_diff |-> move_.col_diff]

\* FlatBoardMove::opposite: same block, negated displacement
FlatBoardMoveOpposite(m) ==
    [block_idx |-> m.block_idx, row_diff |-> -m.row_diff, col_diff |-> -m.col_diff]

\* ------------------------------------------------------------------ Board
\* blocks is a 1-based sequence; the API's block_idx is 0-based as in the code
BoardNew(st, bl, gr, mv) == [state |-> st, blocks |-> bl, grid |-> gr, moves |-> mv]

BoardDefault == BoardNew("Building", <<>>, [c \in Cells |-> None], <<>>)

Ret(b, r) == [board |-> b, res |-> r]

CountNone(gr) == Cardinality({c \in Cells : gr[c] = None})

\* mutant: the reserve of MIN_EMPTY_CELLS cells is not subtracted
num_cells_free_no_reserve(b) == CountNone(b.grid)

\* usize subtraction; every board built through add_block / change_block
\* keeps at least MIN_EMPTY_CELLS cells empty
num_cells_free(b) == CountNone(b.grid) - MIN_EMPTY_CELLS

\* mutant: the number of empty cells is not looked at
is_ready_to_solve_ignores_cells(b) ==
    1 = Cardinality({i \in 1 .. Len(b.blocks) : b.blocks[i].block = WINNING_BLOCK})

is_ready_to_solve(b) ==
    /\ 1 = Cardinality({i \in 1 .. Len(b.blocks) : b.blocks[i].block = WINNING_BLOCK})
    /\ 0 = num_cells_free(b)

update_grid_range(gr, rng, value) ==
    [c \in Cells |-> IF \E p \in rng : c = p[1] * COLS + p[2] THEN value ELSE gr[c]]

is_range_empty(gr, rng) == \A p \in rng : gr[p[1] * COLS + p[2]] = None

\* mutant: Up and Left test only the first column / row of the block
is_step_valid_first_cell_only(gr, block, step) ==
    CASE step = "Up" ->
           \A col \in { block.min_position.col } :
               /\ block.min_position.row - 1 >= 0
               /\ PositionNew(block.min_position.row - 1, col) # Nil
               /\ gr[(block.min_position.row - 1) * COLS + col] = None
      [] step = "Down" ->
           \A col \in block.min_position.col .. block.max_position.col :
               /\ PositionNew(block.max_position.row + 1, col) # Nil
               /\ gr[(block.max_position.row + 1) * COLS + col] = None
      [] step = "Left" ->
           \A row \in { block.min_position.row } :
               /\ block.min_position.col - 1 >= 0
               /\ PositionNew(row, block.min_position.col - 1) # Nil
               /\ gr[row * COLS + block.min_position.col - 1] = None
      [] step = "Right" ->
           \A row \in block.min_position.row .. block.max_position.row :
               /\ PositionNew(row, block.max_position.col + 1) # Nil
               /\ gr[row * COLS + block.max_position.col + 1] = None

is_step_valid_for_block(gr, block, step) ==
    CASE step = "Up" ->
           \A col \in block.min_position.col .. block.max_position.col :
               /\ block.min_position.row - 1 >= 0
               /\ PositionNew(block.min_position.row - 1, col) # Nil
               /\ gr[(block.min_position.row - 1) * COLS + col] = None
      [] step = "Down" ->
           \A col \in block.min_position.col .. block.max_position.col :
               /\ PositionNew(block.max_position.row + 1, col) # Nil
               /\ gr[(block.max_position.row + 1) * COLS + col] = None
      [] step = "Left" ->
           \A row \in block.min_position.row .. block.max_position.row :
               /\ block.min_position.col - 1 >= 0
               /\ PositionNew(row, block.min_position.col - 1) # Nil
               /\ gr[row * COLS + block.min_position.col - 1] = None
      [] step = "Right" ->
           \A row \in block.min_position.row .. block.max_position.row :
               /\ PositionNew(row, block.max_position.col + 1) # Nil
               /\ gr[row * COLS + block.max_position.col + 1] = None

RECURSIVE ApplySteps(_, _)
ApplySteps(block, steps) ==
    IF steps = <<>> THEN block
    ELSE ApplySteps(do_step(block, Head(steps)).pb, Tail(steps))

\* the inner `for next_step in Step::ALL` loop for the step sequence mv
RECURSIVE TrySteps(_, _, _, _)
TrySteps(gr, block, mv, k) ==
    IF k > Len(StepALL) THEN <<>>
    ELSE LET next_step == StepALL[k]
             skip == mv # <<>> /\ opposite(mv[Len(mv)]) = next_step
             ok   == /\ ~skip
                     /\ is_step_valid_for_block(gr, block, next_step)
                     /\ do_step(block, next_step).res = "Ok"
         IN  (IF ok THEN << Append(mv, next_step) >> ELSE <<>>)
             \o TrySteps(gr, block, mv, k + 1)

\* one pass of `for i in 0..moves.len()`: the new sequences are appended
RECURSIVE ExtendAll(_, _, _, _)
ExtendAll(gr, block, mvs, i) ==
    IF i > Len(mvs) THEN <<>>
    ELSE TrySteps(gr, ApplySteps(block, mvs[i]), mvs[i], 1)
         \o ExtendAll(gr, block, mvs, i + 1)

RECURSIVE DepthLoop(_, _, _, _)
DepthLoop(gr, block, mvs, depth) ==
    IF depth >= MIN_EMPTY_CELLS THEN mvs
    ELSE LET grown == mvs \o ExtendAll(gr, block, mvs, 1)
         IN  DepthLoop(gr, block, IF depth = 0 THEN Tail(grown) ELSE grown, depth + 1)

\* the step sequences found for one block, before flattening
StepSequencesForBlock(gr, block) == DepthLoop(gr, block, << <<>> >>, 0)

\* mutant: only the sequences of a single step are returned
get_next_moves_for_block_one_step(gr, block) ==
    LET mvs == TrySteps(gr, block, <<>>, 1)
    IN  [i \in 1 .. Len(mvs) |-> from_steps(mvs[i])]

get_next_moves_for_block(gr, block) ==
    LET mvs == StepSequencesForBlock(gr, block)
    IN  [i \in 1 .. Len(mvs) |-> from_steps(mvs[i])]

\* Vec::dedup: removes consecutive repeated elements only
RECURSIVE dedup(_)
dedup(s) ==
    IF Len(s) <= 1 THEN s
    ELSE IF s[1] = s[2] THEN dedup(Tail(s))
    ELSE << s[1] >> \o dedup(Tail(s))

get_next_moves(b) ==
    [i \in 1 .. Len(b.blocks) |-> dedup(get_next_moves_for_block(b.grid, b.blocks[i]))]

\* mutant: only the first two rows of the grid are hashed
hash_two_rows(b) == [c \in 0 .. (2 * COLS - 1) |-> b.grid[c]]

\* mutant: the move log is hashed together with the grid
hash_with_log(b) == << [c \in Cells |-> b.grid[c]], b.moves >>

\* the grid cells in order, as fed to the hasher (the digest itself is taken
\* to be collision-free on the boards explored)
hash(b) == [c \in Cells |-> b.grid[c]]

is_solved(b) ==
    \E i \in 1 .. Len(b.blocks) :
        /\ b.blocks[i].block = WINNING_BLOCK
        /\ b.blocks[i].min_position.row = WINNING_ROW
        /\ b.blocks[i].min_position.col = WINNING_COL

\* mutant: Solving -> ReadyToSolve is not guarded by the move log
change_state_unguarded(b, new_state) ==
    IF b.state = new_state THEN Ret(b, "Ok")
    ELSE IF b.state = "Building" /\ new_state = "ReadyToSolve"
    THEN (IF ~is_ready_to_solve(b) THEN Ret(b, "BoardStateInvalid")
          ELSE Ret([b EXCEPT !.state = new_state], "Ok"))
    ELSE IF b.state = "ReadyToSolve" /\ new_state \in {"Building", "Solving"}
    THEN Ret([b EXCEPT !.state = new_state], "Ok")
    ELSE IF b.state = "Solving" /\ new_state = "ReadyToSolve"
    THEN Ret([b EXCEPT !.state = new_state], "Ok")
    ELSE IF b.state = "Solving" /\ new_state = "Solved"
    THEN (IF ~is_solved(b) THEN Ret(b, "BoardStateInvalid")
          ELSE Ret([b EXCEPT !.state = new_state], "Ok"))
    ELSE IF b.state = "Solved" /\ new_state = "Solving"
    THEN (IF is_solved(b) THEN Ret(b, "BoardStateInvalid")
          ELSE Ret([b EXCEPT !.state = new_state], "Ok"))
    ELSE Ret(b, "BoardStateInvalid")

\* mutant: a transition outside the table is accepted
change_state_open_table(b, new_state) ==
    IF b.state = new_state THEN Ret(b, "Ok")
    ELSE IF b.state = "Building" /\ new_state = "ReadyToSolve"
    THEN (IF ~is_ready_to_solve(b) THEN Ret(b, "BoardStateInvalid")
          ELSE Ret([b EXCEPT !.state = new_state], "Ok"))
    ELSE IF b.state = "ReadyToSolve" /\ new_state \in {"Building", "Solving"}
    THEN Ret([b EXCEPT !.state = new_state], "Ok")
    ELSE IF b.state = "Solving" /\ new_state = "ReadyToSolve"
    THEN (IF b.moves # <<>> THEN Ret(b, "BoardStateInvalid")
          ELSE Ret([b EXCEPT !.state = new_state], "Ok"))
    ELSE IF b.state = "Solving" /\ new_state = "Solved"
    THEN (IF ~is_solved(b) THEN Ret(b, "BoardStateInvalid")
          ELSE Ret([b EXCEPT !.state = new_state], "Ok"))
    ELSE IF b.state = "Solved" /\ new_state = "Solving"
    THEN (IF is_solved(b) THEN Ret(b, "BoardStateInvalid")
          ELSE Ret([b EXCEPT !.state = new_state], "Ok"))
    ELSE Ret([b EXCEPT !.state = new_state], "Ok")

change_state(b, new_state) ==
    IF b.state = new_state THEN Ret(b, "Ok")
    ELSE IF b.state = "Building" /\ new_state = "ReadyToSolve"
    THEN (IF ~is_ready_to_solve(b) THEN Ret(b, "BoardStateInvalid")
          ELSE Ret([b EXCEPT !.state = new_state], "Ok"))
    ELSE IF b.state = "ReadyToSolve" /\ new_state \in {"Building", "Solving"}
    THEN Ret([b EXCEPT !.state = new_state], "Ok")
    ELSE IF b.state = "Solving" /\ new_state = "ReadyToSolve"
    THEN (IF b.moves # <<>> THEN Ret(b, "BoardStateInvalid")
          ELSE Ret([b EXCEPT !.state = new_state], "Ok"))
    ELSE IF b.state = "Solving" /\ new_state = "Solved"
    THEN (IF ~is_solved(b) THEN Ret(b, "BoardStateInvalid")
          ELSE Ret([b EXCEPT !.state = new_state], "Ok"))
    ELSE IF b.state = "Solved" /\ new_state = "Solving"
    THEN (IF is_solved(b) THEN Ret(b, "BoardStateInvalid")
          ELSE Ret([b EXCEPT !.state = new_state], "Ok"))
    ELSE Ret(b, "BoardStateInvalid")

\* `if self.state != target { self.change_state(target)?; }`
EnsureState(b, target) ==
    IF b.state # target THEN change_state(b, target) ELSE Ret(b, "Ok")

\* mutant: the state is not promoted after the block is placed
add_block_no_promotion(b, positioned_block) ==
    LET cs == EnsureState(b, "Building")
        b1 == cs.board
    IN  IF cs.res # "Ok" THEN Ret(b1, cs.res)
        ELSE IF ~is_range_empty(b1.grid, range(positioned_block))
        THEN Ret(b1, "BlockPlacementInvalid")
        ELSE IF num_cells_free(b1) < size(positioned_block.block)
        THEN Ret(b1, "BlockPlacementInvalid")
        ELSE LET b2 == [b1 EXCEPT
                          !.grid = update_grid_range(b1.grid, range(positioned_block),
                                                     positioned_block.block),
                          !.blocks = Append(b1.blocks, positioned_block)]
             IN  Ret(b2, "Ok")

add_block(b, positioned_block) ==
    LET cs == EnsureState(b, "Building")
        b1 == cs.board
    IN  IF cs.res # "Ok" THEN Ret(b1, cs.res)
        ELSE IF ~is_range_empty(b1.grid, range(positioned_block))
        THEN Ret(b1, "BlockPlacementInvalid")
        ELSE IF num_cells_free(b1) < size(positioned_block.block)
        THEN Ret(b1, "BlockPlacementInvalid")
        ELSE LET b2 == [b1 EXCEPT
                          !.grid = update_grid_range(b1.grid, range(positioned_block),
                                                     positioned_block.block),
                          !.blocks = Append(b1.blocks, positioned_block)]
             IN  Ret(change_state(b2, "ReadyToSolve").board, "Ok")

\* mutant: the old cells are not restored when the new placement conflicts
change_block_no_restore(b, block_idx, new_block) ==
    LET cs == EnsureState(b, "Building")
        b1 == cs.board
    IN  IF cs.res # "Ok" THEN Ret(b1, cs.res)
        ELSE IF block_idx >= Len(b1.blocks) THEN Ret(b1, "BlockIndexOutOfBounds")
        ELSE LET positioned_block == b1.blocks[block_idx + 1]
                 old_size == size(positioned_block.block)
                 new_size == size(new_block)
                 new_positioned_block ==
                     PositionedNew(new_block, positioned_block.min_position.row,
                                   positioned_block.min_position.col)
                 cleared == update_grid_range(b1.grid, range(positioned_block), None)
             IN  IF positioned_block.block = new_block THEN Ret(b1, "Ok")
                 ELSE IF new_size > old_size /\ num_cells_free(b1) < new_size - old_size
                 THEN Ret(b1, "BlockPlacementInvalid")
                 ELSE IF new_positioned_block = Nil
                 THEN Ret(b1, "BlockPlacementInvalid")
                 ELSE IF ~is_range_empty(cleared, range(new_positioned_block))
                 THEN Ret([b1 EXCEPT !.grid = cleared], "BlockPlacementInvalid")
                 ELSE LET b2 == [b1 EXCEPT
                                   !.grid = update_grid_range(cleared,
                                                range(new_positioned_block),
                                                new_positioned_block.block),
                                   !.blocks[block_idx + 1] = new_positioned_block]
                      IN  Ret(change_state(b2, "ReadyToSolve").board, "Ok")

change_block(b, block_idx, new_block) ==
    LET cs == EnsureState(b, "Building")
        b1 == cs.board
    IN  IF cs.res # "Ok" THEN Ret(b1, cs.res)
        ELSE IF block_idx >= Len(b1.blocks) THEN Ret(b1, "BlockIndexOutOfBounds")
        ELSE LET positioned_block == b1.blocks[block_idx + 1]
                 old_size == size(positioned_block.block)
                 new_size == size(new_block)
                 new_positioned_block ==
                     PositionedNew(new_block, positioned_block.min_position.row,
                                   positioned_block.min_position.col)
                 cleared == update_grid_range(b1.grid, range(positioned_block), None)
             IN  IF positioned_block.block = new_block THEN Ret(b1, "Ok")
                 ELSE IF new_size > old_size /\ num_cells_free(b1) < new_size - old_size
                 THEN Ret(b1, "BlockPlacementInvalid")
                 ELSE IF new_positioned_block = Nil
                 THEN Ret(b1, "BlockPlacementInvalid")
                 ELSE IF ~is_range_empty(cleared, range(new_positioned_block))
                 THEN Ret([b1 EXCEPT !.grid = update_grid_range(cleared,
                                                  range(positioned_block),
                                                  positioned_block.block)],
                          "BlockPlacementInvalid")
                 ELSE LET b2 == [b1 EXCEPT
                                   !.grid = update_grid_range(cleared,
                                                range(new_positioned_block),
                                                new_positioned_block.block),
                                   !.blocks[block_idx + 1] = new_positioned_block]
                      IN  Ret(change_state(b2, "ReadyToSolve").board, "Ok")

\* mutant: the last element is dropped whatever the index
swap_remove_drops_last(s, i) == SubSeq(s, 1, Len(s) - 1)

\* Vec::swap_remove: the last element takes the place of the removed one
swap_remove(s, i) ==
    LET last == s[Len(s)]
    IN  [k \in 1 .. Len(s) - 1 |-> IF k = i THEN last ELSE s[k]]

remove_block(b, block_idx) ==
    LET cs == EnsureState(b, "Building")
        b1 == cs.board
    IN  IF cs.res # "Ok" THEN Ret(b1, cs.res)
        ELSE IF block_idx >= Len(b1.blocks) THEN Ret(b1, "BlockIndexOutOfBounds")
        ELSE LET positioned_block == b1.blocks[block_idx + 1]
                 b2 == [b1 EXCEPT
                          !.grid = update_grid_range(b1.grid, range(positioned_block), None),
                          !.blocks = swap_remove(b1.blocks, block_idx + 1)]
             IN  Ret(change_state(b2, "Building").board, "Ok")

\* mutant: the state is not promoted to Solved after the unchecked move
move_block_unchecked_no_promotion(b, block_idx, rd, cd) ==
    IF block_idx >= Len(b.blocks) THEN Ret(b, "Panic")
    ELSE LET positioned_block == b.blocks[block_idx + 1]
             cleared == update_grid_range(b.grid, range(positioned_block), None)
             mv == move_by(positioned_block, rd, cd)
         IN  IF mv.res # "Ok" THEN Ret([b EXCEPT !.grid = cleared], "Panic")
             ELSE LET b2 == [b EXCEPT
                               !.grid = update_grid_range(cleared, range(mv.pb), mv.pb.block),
                               !.blocks[block_idx + 1] = mv.pb]
                  IN  IF FlatMoveNew(rd, cd) = Nil THEN Ret(b2, "Panic")
                      ELSE LET b3 == [b2 EXCEPT !.moves =
                                        Append(b2.moves,
                                               FlatBoardMoveNew(block_idx, FlatMoveNew(rd, cd)))]
                           IN  Ret(b3, "Ok")

\* mutant: the unchecked move is not appended to the move log
move_block_unchecked_no_log(b, block_idx, rd, cd) ==
    IF block_idx >= Len(b.blocks) THEN Ret(b, "Panic")
    ELSE LET positioned_block == b.blocks[block_idx + 1]
             cleared == update_grid_range(b.grid, range(positioned_block), None)
             mv == move_by(positioned_block, rd, cd)
         IN  IF mv.res # "Ok" THEN Ret([b EXCEPT !.grid = cleared], "Panic")
             ELSE LET b2 == [b EXCEPT
                               !.grid = update_grid_range(cleared, range(mv.pb), mv.pb.block),
                               !.blocks[block_idx + 1] = mv.pb]
                  IN  IF FlatMoveNew(rd, cd) = Nil THEN Ret(b2, "Panic")
                      ELSE Ret(change_state(b2, "Solved").board, "Ok")

\* the unwrap()s of the unchecked path abort the thread: result "Panic"
move_block_unchecked(b, block_idx, rd, cd) ==
    IF block_idx >= Len(b.blocks) THEN Ret(b, "Panic")
    ELSE LET positioned_block == b.blocks[block_idx + 1]
             cleared == update_grid_range(b.grid, range(positioned_block), None)
             mv == move_by(positioned_block, rd, cd)
         IN  IF mv.res # "Ok" THEN Ret([b EXCEPT !.grid = cleared], "Panic")
             ELSE LET b2 == [b EXCEPT
                               !.grid = update_grid_range(cleared, range(mv.pb), mv.pb.block),
                               !.blocks[block_idx + 1] = mv.pb]
                  IN  IF FlatMoveNew(rd, cd) = Nil THEN Ret(b2, "Panic")
                      ELSE LET b3 == [b2 EXCEPT !.moves =
                                        Append(b2.moves,
                                               FlatBoardMoveNew(block_idx, FlatMoveNew(rd, cd)))]
                           IN  Ret(change_state(b3, "Solved").board, "Ok")

\* mutant: the state is not promoted to Solved after the move
move_block_no_promotion(b, block_idx, rd, cd) ==
    LET cs == EnsureState(b, "Solving")
        b1 == cs.board
        next_moves == get_next_moves(b1)
    IN  IF cs.res # "Ok" THEN Ret(b1, cs.res)
        \* next_moves.get(block_idx).unwrap(); next_moves has one entry per block
        ELSE IF block_idx >= Len(b1.blocks) THEN Ret(b1, "Panic")
        ELSE LET is_valid_move ==
                     \E k \in 1 .. Len(next_moves[block_idx + 1]) :
                         /\ next_moves[block_idx + 1][k].row_diff = rd
                         /\ next_moves[block_idx + 1][k].col_diff = cd
             IN  IF ~is_valid_move THEN Ret(b1, "BlockPlacementInvalid")
                 ELSE IF block_idx >= Len(b1.blocks) THEN Ret(b1, "BlockIndexOutOfBounds")
                 ELSE LET positioned_block == b1.blocks[block_idx + 1]
                          cleared == update_grid_range(b1.grid, range(positioned_block), None)
                          mv == move_by(positioned_block, rd, cd)
                      IN  IF mv.res # "Ok"
                          THEN Ret([b1 EXCEPT !.grid = update_grid_range(cleared,
                                                           range(mv.pb), mv.pb.block)],
                                   "BlockPlacementInvalid")
                          ELSE IF FlatMoveNew(rd, cd) = Nil THEN Ret(b1, "Panic")
                          ELSE LET b2 == [b1 EXCEPT
                                            !.grid = update_grid_range(cleared, range(mv.pb),
                                                                       mv.pb.block),
                                            !.blocks[block_idx + 1] = mv.pb,
                                            !.moves = Append(b1.moves,
                                                FlatBoardMoveNew(block_idx,
                                                                 FlatMoveNew(rd, cd)))]
                               IN  Ret(b2, "Ok")

\* mutant: the cells the block leaves are not cleared
move_block_keeps_old_cells(b, block_idx, rd, cd) ==
    LET cs == EnsureState(b, "Solving")
        b1 == cs.board
        next_moves == get_next_moves(b1)
    IN  IF cs.res # "Ok" THEN Ret(b1, cs.res)
        \* next_moves.get(block_idx).unwrap(); next_moves has one entry per block
        ELSE IF block_idx >= Len(b1.blocks) THEN Ret(b1, "Panic")
        ELSE LET is_valid_move ==
                     \E k \in 1 .. Len(next_moves[block_idx + 1]) :
                         /\ next_moves[block_idx + 1][k].row_diff = rd
                         /\ next_moves[block_idx + 1][k].col_diff = cd
             IN  IF ~is_valid_move THEN Ret(b1, "BlockPlacementInvalid")
                 ELSE IF block_idx >= Len(b1.blocks) THEN Ret(b1, "BlockIndexOutOfBounds")
                 ELSE LET positioned_block == b1.blocks[block_idx + 1]
                          cleared == b1.grid
                          mv == move_by(positioned_block, rd, cd)
                      IN  IF mv.res # "Ok"
                          THEN Ret([b1 EXCEPT !.grid = update_grid_range(cleared,
                                                           range(mv.pb), mv.pb.block)],
                                   "BlockPlacementInvalid")
                          ELSE IF FlatMoveNew(rd, cd) = Nil THEN Ret(b1, "Panic")
                          ELSE LET b2 == [b1 EXCEPT
                                            !.grid = update_grid_range(cleared, range(mv.pb),
                                                                       mv.pb.block),
                                            !.blocks[block_idx + 1] = mv.pb,
                                            !.moves = Append(b1.moves,
                                                FlatBoardMoveNew(block_idx,
                                                                 FlatMoveNew(rd, cd)))]
                               IN  Ret(change_state(b2, "Solved").board, "Ok")

move_block(b, block_idx, rd, cd) ==
    LET cs == EnsureState(b, "Solving")
        b1 == cs.board
        next_moves == get_next_moves(b1)
    IN  IF cs.res # "Ok" THEN Ret(b1, cs.res)
        \* next_moves.get(block_idx).unwrap(); next_moves has one entry per block
        ELSE IF block_idx >= Len(b1.blocks) THEN Ret(b1, "Panic")
        ELSE LET is_valid_move ==
                     \E k \in 1 .. Len(next_moves[block_idx + 1]) :
                         /\ next_moves[block_idx + 1][k].row_diff = rd
                         /\ next_moves[block_idx + 1][k].col_diff = cd
             IN  IF ~is_valid_move THEN Ret(b1, "BlockPlacementInvalid")
                 ELSE IF block_idx >= Len(b1.blocks) THEN Ret(b1, "BlockIndexOutOfBounds")
                 ELSE LET positioned_block == b1.blocks[block_idx + 1]
                          cleared == update_grid_range(b1.grid, range(positioned_block), None)
                          mv == move_by(positioned_block, rd, cd)
                      IN  IF mv.res # "Ok"
                          THEN Ret([b1 EXCEPT !.grid = update_grid_range(cleared,
                                                           range(mv.pb), mv.pb.block)],
                                   "BlockPlacementInvalid")
                          ELSE IF FlatMoveNew(rd, cd) = Nil THEN Ret(b1, "Panic")
                          ELSE LET b2 == [b1 EXCEPT
                                            !.grid = update_grid_range(cleared, range(mv.pb),
                                                                       mv.pb.block),
                                            !.blocks[block_idx + 1] = mv.pb,
                                            !.moves = Append(b1.moves,
                                                FlatBoardMoveNew(block_idx,
                                                                 FlatMoveNew(rd, cd)))]
                               IN  Ret(change_state(b2, "Solved").board, "Ok")

Front(s) == SubSeq(s, 1, Len(s) - 1)

\* mutant: the undone move stays in the log
undo_move_unchecked_keeps_log(b) ==
    IF b.moves = <<>> THEN Ret(b, "Panic")
    ELSE LET opposite_move == FlatBoardMoveOpposite(b.moves[Len(b.moves)])
         IN  IF opposite_move.block_idx >= Len(b.blocks) THEN Ret(b, "Panic")
             ELSE LET block == b.blocks[opposite_move.block_idx + 1]
                      cleared == update_grid_range(b.grid, range(block), None)
                      mv == move_by(block, opposite_move.row_diff, opposite_move.col_diff)
                  IN  IF mv.res # "Ok" THEN Ret([b EXCEPT !.grid = cleared], "Panic")
                      ELSE LET b2 == [b EXCEPT
                                        !.grid = update_grid_range(cleared, range(mv.pb),
                                                                   mv.pb.block),
                                        !.blocks[opposite_move.block_idx + 1] = mv.pb]
                           IN  Ret(change_state(b2, "Solving").board, "Ok")

undo_move_unchecked(b) ==
    IF b.moves = <<>> THEN Ret(b, "Panic")
    ELSE LET opposite_move == FlatBoardMoveOpposite(b.moves[Len(b.moves)])
             b1 == [b EXCEPT !.moves = Front(b.moves)]
         IN  IF opposite_move.block_idx >= Len(b1.blocks) THEN Ret(b1, "Panic")
             ELSE LET block == b1.blocks[opposite_move.block_idx + 1]
                      cleared == update_grid_range(b1.grid, range(block), None)
                      mv == move_by(block, opposite_move.row_diff, opposite_move.col_diff)
                  IN  IF mv.res # "Ok" THEN Ret([b1 EXCEPT !.grid = cleared], "Panic")
                      ELSE LET b2 == [b1 EXCEPT
                                        !.grid = update_grid_range(cleared, range(mv.pb),
                                                                   mv.pb.block),
                                        !.blocks[opposite_move.block_idx + 1] = mv.pb]
                           IN  Ret(change_state(b2, "Solving").board, "Ok")

\* mutant: the popped move is applied again instead of its opposite
undo_move_not_negated(b) ==
    IF b.state \notin {"Solving", "Solved"} THEN Ret(b, "BoardStateInvalid")
    ELSE IF b.moves = <<>> THEN Ret(b, "NoMovesToUndo")
    ELSE LET opposite_move == b.moves[Len(b.moves)]
             b1 == [b EXCEPT !.moves = Front(b.moves)]
         IN  IF opposite_move.block_idx >= Len(b1.blocks)
             THEN Ret(b1, "BlockIndexOutOfBounds")
             ELSE LET block == b1.blocks[opposite_move.block_idx + 1]
                      cleared == update_grid_range(b1.grid, range(block), None)
                      mv == move_by(block, opposite_move.row_diff, opposite_move.col_diff)
                  IN  IF mv.res # "Ok"
                      THEN Ret([b1 EXCEPT !.grid = update_grid_range(cleared, range(mv.pb),
                                                                     mv.pb.block)],
                               "BlockPlacementInvalid")
                      ELSE LET b2 == [b1 EXCEPT
                                        !.grid = update_grid_range(cleared, range(mv.pb),
                                                                   mv.pb.block),
                                        !.blocks[opposite_move.block_idx + 1] = mv.pb]
                           IN  Ret(change_state(b2, "Solving").board, "Ok")

undo_move(b) ==
    IF b.state \notin {"Solving", "Solved"} THEN Ret(b, "BoardStateInvalid")
    ELSE IF b.moves = <<>> THEN Ret(b, "NoMovesToUndo")
    ELSE LET opposite_move == FlatBoardMoveOpposite(b.moves[Len(b.moves)])
             b1 == [b EXCEPT !.moves = Front(b.moves)]
         IN  IF opposite_move.block_idx >= Len(b1.blocks)
             THEN Ret(b1, "BlockIndexOutOfBounds")
             ELSE LET block == b1.blocks[opposite_move.block_idx + 1]
                      cleared == update_grid_range(b1.grid, range(block), None)
                      mv == move_by(block, opposite_move.row_diff, opposite_move.col_diff)
                  IN  IF mv.res # "Ok"
                      THEN Ret([b1 EXCEPT !.grid = update_grid_range(cleared, range(mv.pb),
                                                                     mv.pb.block)],
                               "BlockPlacementInvalid")
                      ELSE LET b2 == [b1 EXCEPT
                                        !.grid = update_grid_range(cleared, range(mv.pb),
                                                                   mv.pb.block),
                                        !.blocks[opposite_move.block_idx + 1] = mv.pb]
                           IN  Ret(change_state(b2, "Solving").board, "Ok")

\* `while !self.moves.is_empty() { self.undo_move()?; }`
RECURSIVE UndoAll(_)
UndoAll(b) ==
    IF b.moves = <<>> THEN Ret(b, "Ok")
    ELSE LET u == undo_move(b)
         IN  IF u.res # "Ok" THEN u ELSE UndoAll(u.board)

reset(b) ==
    IF b.state \notin {"Solving", "Solved"} THEN Ret(b, "BoardStateInvalid")
    ELSE LET u == UndoAll(b)
         IN  IF u.res # "Ok" THEN u
             ELSE Ret(change_state(u.board, "ReadyToSolve").board, "Ok")

\* ------------------------------------------------------- mutation-API model
\* the caller's board and the outcome of the last API call on it
VARIABLES state, blocks, grid, moves, lastOp, nops
\* one solve(&board) call: the main thread's position, the shared queue and
\* visited set, the worker threads of the current level, the handle being
\* joined, the number of `while` iterations started so far (iteration n
\* processes the boards of depth n - 1), and solve's result
VARIABLES spc, queue, seen, workers, joinIdx, level, result

boardVars == << state, blocks, grid, moves, lastOp, nops >>
solverVars == << spc, queue, seen, workers, joinIdx, level, result >>
vars == << state, blocks, grid, moves, lastOp, nops,
           spc, queue, seen, workers, joinIdx, level, result >>

\* the caller's board as one value
Cur == BoardNew(state, blocks, grid, moves)

RECURSIVE Build(_, _)
Build(b, layout) ==
    IF layout = <<>> THEN b ELSE Build(add_block(b, Head(layout)).board, Tail(layout))

\* a jammed layout one move away from the goal (empty cells (4,1) and (4,2))
LayoutA ==
    << PositionedNew("TwoByOne", 0, 0), PositionedNew("TwoByOne", 2, 0),
       PositionedNew("OneByOne", 4, 0), PositionedNew("OneByTwo", 0, 1),
       PositionedNew("OneByTwo", 1, 1), PositionedNew("TwoByOne", 0, 3),
       PositionedNew("TwoByOne", 2, 3), PositionedNew("OneByOne", 4, 3),
       PositionedNew("TwoByTwo", 2, 1) >>

\* a ready layout whose TwoByTwo block already sits on the goal cell
LayoutSolved ==
    << PositionedNew("TwoByTwo", 3, 1), PositionedNew("TwoByOne", 3, 3),
       PositionedNew("OneByTwo", 2, 0), PositionedNew("TwoByOne", 0, 3),
       PositionedNew("OneByTwo", 0, 1), PositionedNew("TwoByOne", 1, 2),
       PositionedNew("OneByOne", 4, 0), PositionedNew("TwoByOne", 0, 0),
       PositionedNew("OneByOne", 2, 3) >>

\* blocks a caller asks add_block to place: the layout's last blocks and
\* blocks that overlap or exceed the empty-cell budget
AddInputs ==
    { PositionedNew("TwoByTwo", 2, 1), PositionedNew("OneByOne", 4, 3),
      PositionedNew("OneByOne", 4, 1), PositionedNew("OneByTwo", 4, 1),
      PositionedNew("TwoByTwo", 3, 1), PositionedNew("TwoByOne", 3, 3) }

\* boards handed to the API: the empty board, and boards add_block builds
\* from it (Board::new restores such a board from its stored fields)
InitBoards ==
    { BoardDefault,
      Build(BoardDefault, SubSeq(LayoutA, 1, 7)),
      Build(BoardDefault, LayoutA),
      Build(BoardDefault, LayoutSolved) }

Displacements == { d \in (-2 .. 2) \X (-2 .. 2) : Abs(d[1]) + Abs(d[2]) <= MIN_EMPTY_CELLS }

Threads == 1 .. NUM_THREADS

IdleWorker == [pc |-> "idle", batch |-> 0, board |-> Nil, todo |-> <<>>, ret |-> Nil]

Pending == [kind |-> "Pending", moves |-> <<>>]

\* no solve call in progress
SolverIdle ==
    /\ spc = "idle"
    /\ queue = <<>>
    /\ seen = {}
    /\ workers = [t \in Threads |-> IdleWorker]
    /\ joinIdx = 0
    /\ level = 0
    /\ result = Pending

Call(op, r) ==
    /\ state' = r.board.state
    /\ blocks' = r.board.blocks
    /\ grid' = r.board.grid
    /\ moves' = r.board.moves
    /\ lastOp' = [op |-> op, res |-> r.res]
    /\ nops' = nops + 1
    /\ UNCHANGED solverVars

\* a panic aborts the caller: nothing is called on the board afterwards
CanCall == nops < MaxOps /\ lastOp.res # "Panic"

Init ==
    /\ \E b \in InitBoards :
          /\ state = b.state
          /\ blocks = b.blocks
          /\ grid = b.grid
          /\ moves = b.moves
    /\ lastOp = [op |-> "new", res |-> "Ok"]
    /\ nops = 0
    /\ SolverIdle

\* block indices a caller passes to change_block and remove_block: the first
\* block, the last block and the first index past the end
IndexInputs == { i \in {0, Len(blocks) - 1, Len(blocks)} : i >= 0 }

AddBlockCall(pb) == Call("add_block", add_block(Cur, pb))

AddBlock == CanCall /\ \E pb \in AddInputs : AddBlockCall(pb)

ChangeBlockCall(idx, new_block) == Call("change_block", change_block(Cur, idx, new_block))

ChangeBlock ==
    CanCall /\ \E idx \in IndexInputs, new_block \in Shapes : ChangeBlockCall(idx, new_block)

RemoveBlockCall(idx) == Call("remove_block", remove_block(Cur, idx))

RemoveBlock == CanCall /\ \E idx \in IndexInputs : RemoveBlockCall(idx)

MoveBlockCall(idx, rd, cd) == Call("move_block", move_block(Cur, idx, rd, cd))

MoveBlock ==
    /\ CanCall
    /\ \E idx \in 0 .. Len(blocks), d \in Displacements : MoveBlockCall(idx, d[1], d[2])

UndoMove == CanCall /\ Call("undo_move", undo_move(Cur))

Reset == CanCall /\ Call("reset", reset(Cur))

ChangeStateCall(new_state) == Call("change_state", change_state(Cur, new_state))

ChangeState == CanCall /\ \E new_state \in States : ChangeStateCall(new_state)

Next ==
    \/ AddBlock
    \/ ChangeBlock
    \/ RemoveBlock
    \/ MoveBlock
    \/ UndoMove
    \/ Reset
    \/ ChangeState

Spec == Init /\ [][Next]_vars

TypeOK ==
    /\ state \in States
    /\ grid \in [Cells -> Shapes \cup {None}]
    /\ nops \in 0 .. MaxOps

\* ------------------------------------------------------------ solver model
\* roots handed to solve: a layout one move from the goal, one three moves
\* from it, one from which the goal cannot be reached, and one that already
\* satisfies the goal
LayoutOne ==
    << PositionedNew("TwoByTwo", 3, 0), PositionedNew("TwoByOne", 0, 0),
       PositionedNew("OneByTwo", 1, 1), PositionedNew("OneByTwo", 2, 2),
       PositionedNew("OneByTwo", 0, 1), PositionedNew("TwoByOne", 0, 3),
       PositionedNew("OneByTwo", 2, 0), PositionedNew("TwoByOne", 3, 3) >>

LayoutThree ==
    << PositionedNew("TwoByTwo", 3, 2), PositionedNew("TwoByOne", 2, 0),
       PositionedNew("TwoByOne", 0, 2), PositionedNew("OneByTwo", 0, 0),
       PositionedNew("TwoByOne", 3, 1), PositionedNew("OneByTwo", 2, 2),
       PositionedNew("TwoByOne", 0, 3), PositionedNew("TwoByOne", 1, 1) >>

LayoutStuck ==
    << PositionedNew("TwoByTwo", 1, 0), PositionedNew("TwoByOne", 1, 3),
       PositionedNew("OneByTwo", 3, 2), PositionedNew("OneByTwo", 0, 2),
       PositionedNew("OneByTwo", 0, 0), PositionedNew("TwoByOne", 3, 1),
       PositionedNew("OneByTwo", 4, 2), PositionedNew("OneByOne", 1, 2),
       PositionedNew("OneByOne", 4, 0) >>

\* a layout one move from the goal whose root has five children, so that the
\* second level is split into batches of two, two, one and none
LayoutWide ==
    << PositionedNew("TwoByTwo", 3, 0), PositionedNew("OneByOne", 4, 3),
       PositionedNew("TwoByOne", 1, 2), PositionedNew("TwoByOne", 1, 1),
       PositionedNew("TwoByOne", 0, 3), PositionedNew("TwoByOne", 1, 0),
       PositionedNew("OneByTwo", 0, 1), PositionedNew("OneByOne", 0, 0),
       PositionedNew("TwoByOne", 2, 3) >>

\* boards a caller passes to solve; all are built through the mutation API:
\* not ready (empty, one block short), ready, ready with a move log
\* (Solving), ready in state Solved, at the goal in the states
\* ReadyToSolve (as built) and Solving (after a refused move_block), and
\* ready with a level of five boards
SolverBoards ==
    { BoardDefault,
      Build(BoardDefault, SubSeq(LayoutOne, 1, 7)),
      Build(BoardDefault, LayoutOne),
      move_block(Build(BoardDefault, LayoutOne), 7, 0, -1).board,
      move_block(Build(BoardDefault, LayoutOne), 0, 0, 1).board,
      Build(BoardDefault, LayoutThree),
      Build(BoardDefault, LayoutStuck),
      Build(BoardDefault, LayoutSolved),
      move_block(Build(BoardDefault, LayoutSolved), 7, -1, 0).board,
      Build(BoardDefault, LayoutWide) }

Min(a, b) == IF a < b THEN a ELSE b

\* `(level_size + NUM_THREADS - 1) / NUM_THREADS`
BatchSize(level_size) == (level_size + NUM_THREADS - 1) \div NUM_THREADS

\* mutant: level_size is not reduced by the batches already handed out
RECURSIVE BatchSizesNoDecrement(_, _, _)
BatchSizesNoDecrement(batch_size, level_size, n) ==
    IF n = 0 THEN <<>>
    ELSE << Min(batch_size, level_size) >>
         \o BatchSizesNoDecrement(batch_size, level_size, n - 1)

\* the `for _ in 0..NUM_THREADS` loop: curr_batch_size of each spawned thread
RECURSIVE BatchSizes(_, _, _)
BatchSizes(batch_size, level_size, n) ==
    IF n = 0 THEN <<>>
    ELSE LET curr_batch_size == Min(batch_size, level_size)
         IN  << curr_batch_size >>
             \o BatchSizes(batch_size, level_size - curr_batch_size, n - 1)

\* next_moves in iteration order: (block_idx, move_) pairs
RECURSIVE FlattenMoves(_, _)
FlattenMoves(next_moves, i) ==
    IF i > Len(next_moves) THEN <<>>
    ELSE [k \in 1 .. Len(next_moves[i]) |->
             FlatBoardMoveNew(i - 1, next_moves[i][k])]
         \o FlattenMoves(next_moves, i + 1)

\* mutant: the child is pushed at the front of the queue
push_front(q, b) == << b >> \o q

\* VecDeque::push_back
push_back(q, b) == Append(q, b)

Some(mvs) == [kind |-> "Some", moves |-> mvs]

\* solve up to the call of parallel_bfs, and parallel_bfs up to its loop
Solve ==
    /\ spc = "idle"
    /\ LET start_board == [Cur EXCEPT !.moves = <<>>]
           cs == change_state(start_board, "Solving")
           root == change_state(cs.board, "Solved").board
       IN  IF cs.res # "Ok"
           THEN /\ result' = [kind |-> "Err", moves |-> <<>>]
                /\ spc' = "done"
                /\ UNCHANGED << queue, seen >>
           ELSE IF root.state = "Solved"
           THEN /\ result' = Some(root.moves)
                /\ spc' = "done"
                /\ UNCHANGED << queue, seen >>
           ELSE /\ seen' = { hash(root) }
                /\ queue' = << root >>
                /\ spc' = "loop"
                /\ UNCHANGED result
    /\ UNCHANGED << workers, joinIdx, level >>
    /\ UNCHANGED boardVars

\* `while !queue.is_empty()`: spawn the level's workers, or return None
LevelStart ==
    /\ spc = "loop"
    /\ IF queue = <<>>
       THEN /\ result' = [kind |-> "None", moves |-> <<>>]
            /\ spc' = "done"
            /\ UNCHANGED << workers, joinIdx, level >>
       ELSE LET level_size == Len(queue)
                sizes == BatchSizes(BatchSize(level_size), level_size, NUM_THREADS)
            IN  /\ workers' = [t \in Threads |->
                                 [pc |-> "pop", batch |-> sizes[t], board |-> Nil,
                                  todo |-> <<>>, ret |-> Nil]]
                /\ joinIdx' = 1
                /\ level' = level + 1
                /\ spc' = "join"
                /\ UNCHANGED result
    /\ UNCHANGED << queue, seen >>
    /\ UNCHANGED boardVars

\* head of `for _ in 0..batch_size`: pop a board and test it for the goal
WorkerPop(t) ==
    /\ workers[t].pc = "pop"
    /\ IF workers[t].batch = 0
       THEN /\ workers' = [workers EXCEPT ![t].pc = "done", ![t].ret = Nil]
            /\ UNCHANGED queue
       ELSE IF queue = <<>>
       THEN /\ workers' = [workers EXCEPT ![t].pc = "panic"]
            /\ UNCHANGED queue
       ELSE LET board == Head(queue)
            IN  /\ queue' = Tail(queue)
                /\ IF board.state = "Solved"
                   THEN workers' = [workers EXCEPT ![t].pc = "done", ![t].board = board,
                                                   ![t].ret = board]
                   ELSE workers' = [workers EXCEPT
                                      ![t].pc = "expand", ![t].board = board,
                                      ![t].todo = FlattenMoves(get_next_moves(board), 1)]
    /\ UNCHANGED << spc, seen, joinIdx, level, result >>
    /\ UNCHANGED boardVars

\* one iteration of the move loop up to `seen.lock().unwrap().insert(..)`
WorkerInsert(t) ==
    /\ workers[t].pc = "expand"
    /\ IF workers[t].todo = <<>>
       THEN /\ workers' = [workers EXCEPT ![t].pc = "pop", ![t].batch = @ - 1]
            /\ UNCHANGED seen
       ELSE LET move_ == Head(workers[t].todo)
                moved == move_block_unchecked(workers[t].board, move_.block_idx,
                                              move_.row_diff, move_.col_diff)
            IN  IF moved.res # "Ok"
                THEN /\ workers' = [workers EXCEPT ![t].pc = "panic", ![t].board = moved.board]
                     /\ UNCHANGED seen
                ELSE IF hash(moved.board) \notin seen
                THEN /\ seen' = seen \cup { hash(moved.board) }
                     /\ workers' = [workers EXCEPT ![t].pc = "push", ![t].board = moved.board]
                ELSE LET undone == undo_move_unchecked(moved.board)
                     IN  /\ workers' = [workers EXCEPT
                                          ![t].pc = IF undone.res = "Ok" THEN "expand" ELSE "panic",
                                          ![t].board = undone.board,
                                          ![t].todo = Tail(@)]
                         /\ UNCHANGED seen
    /\ UNCHANGED << spc, queue, joinIdx, level, result >>
    /\ UNCHANGED boardVars

\* `queue.lock().unwrap().push_back(board.clone())` and the undo after it
WorkerPush(t) ==
    /\ workers[t].pc = "push"
    /\ queue' = push_back(queue, workers[t].board)
    /\ LET undone == undo_move_unchecked(workers[t].board)
       IN  workers' = [workers EXCEPT
                         ![t].pc = IF undone.res = "Ok" THEN "expand" ELSE "panic",
                         ![t].board = undone.board,
                         ![t].todo = Tail(@)]
    /\ UNCHANGED << spc, seen, joinIdx, level, result >>
    /\ UNCHANGED boardVars

\* `for handle in handles { if let Some(..) = handle.join().unwrap() {..} }`
Join ==
    /\ spc = "join"
    /\ workers[joinIdx].pc \in {"done", "panic"}
    /\ IF workers[joinIdx].pc = "panic"
       THEN /\ spc' = "panic"
            /\ result' = [kind |-> "Panic", moves |-> <<>>]
            /\ UNCHANGED << joinIdx, level >>
       ELSE IF workers[joinIdx].ret # Nil
       THEN /\ spc' = "done"
            /\ result' = Some(workers[joinIdx].ret.moves)
            /\ UNCHANGED << joinIdx, level >>
       ELSE IF joinIdx = NUM_THREADS
       THEN /\ spc' = "loop"
            /\ UNCHANGED << joinIdx, level, result >>
       ELSE /\ joinIdx' = joinIdx + 1
            /\ UNCHANGED << spc, level, result >>
    /\ UNCHANGED << queue, seen, workers >>
    /\ UNCHANGED boardVars

SolverInit ==
    /\ \E b \in SolverBoards :
          /\ state = b.state
          /\ blocks = b.blocks
          /\ grid = b.grid
          /\ moves = b.moves
    /\ lastOp = [op |-> "new", res |-> "Ok"]
    /\ nops = 0
    /\ SolverIdle

SolverNext ==
    \/ Solve
    \/ LevelStart
    \/ \E t \in Threads : WorkerPop(t)
    \/ \E t \in Threads : WorkerInsert(t)
    \/ \E t \in Threads : WorkerPush(t)
    \/ Join

SolverSpec == SolverInit /\ [][SolverNext]_vars

\* ------------------------------------------------------------------ claims
\* cell c lies in the rectangle of the positioned block pb
Covers(pb, c) ==
    /\ c \div COLS \in pb.min_position.row .. pb.max_position.row
    /\ c % COLS \in pb.min_position.col .. pb.max_position.col

Coverers(bl, c) == { i \in 1 .. Len(bl) : Covers(bl[i], c) }

\* the occupancy a block list stands for
GridOf(bl) ==
    [c \in Cells |-> IF Coverers(bl, c) = {} THEN None
                     ELSE bl[CHOOSE i \in Coverers(bl, c) : TRUE].block]

Shifted(bl, idx, rd, cd) ==
    [bl EXCEPT ![idx + 1].min_position =
                   [row |-> @.row + rd, col |-> @.col + cd],
               ![idx + 1].max_position =
                   [row |-> @.row + rd, col |-> @.col + cd]]

GoalBlocks(bl) ==
    \E i \in 1 .. Len(bl) :
        /\ bl[i].block = "TwoByTwo"
        /\ bl[i].min_position = [row |-> 3, col |-> 1]

SeqRange(sq) == { sq[i] : i \in 1 .. Len(sq) }

\* the block lists one legal compound move away from bl
LegalNext(bl) ==
    LET b == BoardNew("Solving", bl, GridOf(bl), <<>>)
    IN  { Shifted(bl, m.block_idx, m.row_diff, m.col_diff) :
            m \in SeqRange(FlattenMoves(get_next_moves(b), 1)) }

\* least number of legal compound moves from the frontier to a goal, -1 if none
RECURSIVE GoalDepth(_, _, _)
GoalDepth(visited, frontier, d) ==
    IF \E bl \in frontier : GoalBlocks(bl) THEN d
    ELSE IF frontier = {} THEN -1
    ELSE LET nxt == (UNION { LegalNext(bl) : bl \in frontier }) \ visited
         IN  GoalDepth(visited \cup nxt, nxt, d + 1)

RootGoalDepth == GoalDepth({ blocks }, { blocks }, 0)

\* the moves applied in order through the checked move_block
RECURSIVE Replay(_, _)
Replay(b, mvs) ==
    IF mvs = <<>> THEN Ret(b, "Ok")
    ELSE LET r == move_block(b, Head(mvs).block_idx, Head(mvs).row_diff, Head(mvs).col_diff)
         IN  IF r.res # "Ok" THEN r ELSE Replay(r.board, Tail(mvs))

\* C1: a move list returned by solve is never longer than the shortest
\* sequence of legal compound moves from the input grid to a goal grid,
\* whatever the interleaving of the worker threads.
C1_Optimal ==
    result.kind = "Some" =>
        ~ (RootGoalDepth >= 0 /\ RootGoalDepth < Len(result.moves))

C1_Witness ==
    /\ result.kind = "Some"
    /\ Len(result.moves) = 3
    /\ \E t \in Threads : t > 1 /\ workers[t].board # Nil

\* C2: replaying a returned move list on the caller's board through the
\* checked move_block succeeds at every step and ends on a solved board.
C2_SolutionValid ==
    result.kind = "Some" =>
        LET r == Replay(Cur, result.moves)
        IN  r.res = "Ok" /\ is_solved(r.board)

C2_Witness == result.kind = "Some" /\ Len(result.moves) >= 2 /\ state = "ReadyToSolve"

\* C3: on an accepted board solve returns None exactly when no goal grid is
\* reachable by legal compound moves, and a move list otherwise.
C3_Complete ==
    /\ result.kind = "None" => RootGoalDepth = -1
    /\ result.kind = "Some" => RootGoalDepth >= 0
    /\ result.kind # "Panic"

C3_Witness == result.kind = "None" /\ level >= 3

\* C4: in the iteration that processes depth d = level - 1, every board a
\* worker has popped has depth d (its move log has d entries, d + 1 while a
\* child is being pushed), no worker finds the queue empty, and the shared
\* queue holds only boards of depth d and d + 1.
C4_LevelOrder ==
    /\ \A t \in Threads :
          workers[t].pc \in {"expand", "push", "done"} /\ workers[t].board # Nil
              => Len(workers[t].board.moves)
                     = level - 1 + (IF workers[t].pc = "push" THEN 1 ELSE 0)
    /\ \A t \in Threads : workers[t].pc # "panic"
    /\ \A i \in 1 .. Len(queue) : Len(queue[i].moves) \in {level - 1, level}

\* a worker is about to pop while next-level boards are already queued
C4_Witness ==
    \E t \in Threads :
        /\ workers[t].pc = "pop"
        /\ workers[t].batch > 0
        /\ level >= 2
        /\ \E i \in 1 .. Len(queue) : Len(queue[i].moves) = level

\* C5: every grid cell holds shape S iff exactly one block covers it and has
\* shape S; no two blocks overlap and no cell is occupied without a block.
C5_GridConsistent ==
    \A c \in Cells :
        /\ Cardinality(Coverers(blocks, c)) <= 1
        /\ grid[c] = GridOf(blocks)[c]

C5_Witness ==
    /\ lastOp.op = "remove_block"
    /\ lastOp.res = "Ok"
    /\ Len(blocks) >= 6

\* the transition table of the claim
C6_Allowed(b, target) ==
    LET ready == /\ Cardinality({i \in 1 .. Len(b.blocks) : b.blocks[i].block = "TwoByTwo"}) = 1
                 /\ Cardinality({c \in Cells : b.grid[c] = None}) = 2
    IN  \/ target = b.state
        \/ b.state = "Building" /\ target = "ReadyToSolve" /\ ready
        \/ b.state = "ReadyToSolve" /\ target = "Building"
        \/ b.state = "ReadyToSolve" /\ target = "Solving"
        \/ b.state = "Solving" /\ target = "ReadyToSolve" /\ b.moves = <<>>
        \/ b.state = "Solving" /\ target = "Solved" /\ GoalBlocks(b.blocks)
        \/ b.state = "Solved" /\ target = "Solving" /\ ~GoalBlocks(b.blocks)

\* C6: change_state(target) succeeds exactly on the edges of the table and
\* then sets the state; every other request fails with BoardStateInvalid and
\* leaves the board as it was.
C6_StateTable ==
    \A target \in States :
        LET r == change_state(Cur, target)
        IN  IF C6_Allowed(Cur, target)
            THEN r.res = "Ok" /\ r.board = [Cur EXCEPT !.state = target]
            ELSE r.res = "BoardStateInvalid" /\ r.board = Cur

C6_Witness ==
    /\ lastOp.op = "change_state"
    /\ lastOp.res = "Ok"
    /\ state = "Solved"

\* C7: a call of add_block, change_block, remove_block, move_block or
\* undo_move that returns an error leaves the grid as it was before the call.
C7_GridAtomic ==
    [][ ( /\ lastOp'.op \in {"add_block", "change_block", "remove_block",
                             "move_block", "undo_move"}
          /\ lastOp'.res \notin {"Ok", "Panic"}
          /\ nops' = nops + 1 )
        => grid' = grid ]_vars

C7_Witness ==
    /\ lastOp.op = "change_block"
    /\ lastOp.res = "BlockPlacementInvalid"
    /\ state = "Building"

\* C8: remove_block, change_block and move_block called with an index that is
\* not below blocks.len() return an error value and never panic.
C8_NoPanic == lastOp.res # "Panic"

\* the displacements get_next_moves lists for block idx
NextSet(b, idx) ==
    LET listed == get_next_moves(b)[idx + 1]
    IN  { << listed[k].row_diff, listed[k].col_diff >> : k \in 1 .. Len(listed) }

\* C9: in state ReadyToSolve or Solving, move_block(idx, r, c) with a valid
\* idx succeeds iff (r, c) is listed by get_next_moves for idx and otherwise
\* fails with BlockPlacementInvalid; on success the block is translated by
\* (r, c), the other cells keep their content and one FlatBoardMove
\* (idx, r, c) is appended to the log.
C9_CheckedMove ==
    state \in {"ReadyToSolve", "Solving"} =>
        \A idx \in 0 .. Len(blocks) - 1 :
          LET listed == NextSet(Cur, idx)
          IN  \A d \in Displacements :
            LET r == move_block(Cur, idx, d[1], d[2])
                old == range(blocks[idx + 1])
                new == { << p[1] + d[1], p[2] + d[2] >> : p \in old }
            IN  IF d \in listed
                THEN /\ r.res = "Ok"
                     /\ range(r.board.blocks[idx + 1]) = new
                     /\ r.board.blocks[idx + 1].block = blocks[idx + 1].block
                     /\ \A k \in 1 .. Len(blocks) :
                            k # idx + 1 => r.board.blocks[k] = blocks[k]
                     /\ \A c \in Cells :
                            IF << c \div COLS, c % COLS >> \in new
                            THEN r.board.grid[c] = blocks[idx + 1].block
                            ELSE IF << c \div COLS, c % COLS >> \in old
                            THEN r.board.grid[c] = None
                            ELSE r.board.grid[c] = grid[c]
                     /\ r.board.moves =
                            Append(moves, [block_idx |-> idx, row_diff |-> d[1],
                                           col_diff |-> d[2]])
                ELSE r.res = "BlockPlacementInvalid"

C9_Witness ==
    /\ lastOp.op = "move_block"
    /\ lastOp.res = "Ok"
    /\ Len(moves) >= 2

\* block i translated by (rd, cd) lies in the grid on cells that are empty
\* or its own
SafeAt(i, rd, cd) ==
    \A p \in range(blocks[i]) :
        /\ p[1] + rd \in 0 .. ROWS - 1
        /\ p[2] + cd \in 0 .. COLS - 1
        /\ \/ grid[(p[1] + rd) * COLS + p[2] + cd] = None
           \/ << p[1] + rd, p[2] + cd >> \in range(blocks[i])

\* C10: every displacement get_next_moves lists for a block, and every
\* intermediate position of the step sequence that produced it, keeps the
\* block inside the grid and off the cells of every other block.
C10_GeneratorSafe ==
    \A i \in 1 .. Len(blocks) :
        /\ \A d \in NextSet(Cur, i - 1) : SafeAt(i, d[1], d[2])
        /\ \A sq \in SeqRange(StepSequencesForBlock(grid, blocks[i])) :
              \A n \in 1 .. Len(sq) :
                  SafeAt(i, from_steps(SubSeq(sq, 1, n)).row_diff,
                         from_steps(SubSeq(sq, 1, n)).col_diff)

\* some block of a board with more than two empty cells has a two-step move
C10_Witness ==
    /\ CountNone(grid) > MIN_EMPTY_CELLS
    /\ \E i \in 1 .. Len(blocks) :
          \E d \in NextSet(Cur, i - 1) : d[1] # 0 /\ d[2] # 0

\* no element occurs at two positions of the sequence
NoRepeat(sq) == \A i, j \in 1 .. Len(sq) : i # j => sq[i] # sq[j]

\* C11: each per-block list returned by get_next_moves contains no net
\* displacement more than once, whatever the state and the number of
\* empty cells.
C11_NoDuplicates == \A i \in 1 .. Len(blocks) : NoRepeat(get_next_moves(Cur)[i])

\* the outcome of move_block(idx, r, c) followed by move_block(idx, -r, -c)
RoundTrip(idx, rd, cd) ==
    LET first == move_block(Cur, idx, rd, cd)
    IN  [first |-> first, second |-> move_block(first.board, idx, -rd, -cd)]

\* C12 as stated: every move accepted by move_block can be followed by the
\* inverse move through move_block, which is accepted and restores the grid.
C12_RoundTripAlways ==
    \A idx \in 0 .. Len(blocks) - 1 : \A d \in NextSet(Cur, idx) :
        LET rt == RoundTrip(idx, d[1], d[2])
        IN  rt.first.res = "Ok" =>
                rt.second.res = "Ok" /\ rt.second.board.grid = grid

\* C12 amended: an accepted move that does not reach the goal can be
\* followed by its inverse, which is accepted and restores grid and block
\* positions; an accepted move that reaches the goal leaves the board Solved
\* and the inverse move_block is refused with BoardStateInvalid, the board
\* staying as the first move left it.
C12_RoundTrip ==
    \A idx \in 0 .. Len(blocks) - 1 : \A d \in NextSet(Cur, idx) :
        LET rt == RoundTrip(idx, d[1], d[2])
        IN  rt.first.res = "Ok" =>
                IF rt.first.board.state = "Solved"
                THEN /\ rt.second.res = "BoardStateInvalid"
                     /\ rt.second.board = rt.first.board
                ELSE /\ rt.second.res = "Ok"
                     /\ rt.second.board.grid = grid
                     /\ rt.second.board.blocks = blocks

\* the last two logged moves are a move and its inverse, both accepted
C12_Witness ==
    /\ lastOp = [op |-> "move_block", res |-> "Ok"]
    /\ Len(moves) >= 2
    /\ moves[Len(moves)] = FlatBoardMoveOpposite(moves[Len(moves) - 1])
    /\ state = "Solving"

\* the boards move_block leaves after one more accepted move on b; the
\* displacements tried are those get_next_moves lists, the only ones
\* move_block accepts
AcceptedMoves(b) ==
    LET tries == UNION { { move_block(b, idx, d[1], d[2]) : d \in NextSet(b, idx) } :
                         idx \in 0 .. Len(b.blocks) - 1 }
    IN  { r.board : r \in { t \in tries : t.res = "Ok" } }

\* the histories << B0, B1, .., Bn >> of at most n further accepted moves,
\* Bi being the board right after move i
RECURSIVE Histories(_, _)
Histories(h, n) ==
    IF n = 0 THEN { h }
    ELSE { h } \cup UNION { Histories(Append(h, nb), n - 1) :
                              nb \in AcceptedMoves(h[Len(h)]) }

\* undoing from board b, which holds the position of h[n]: every undo_move
\* succeeds, pops one log entry and gives the grid and blocks of h[n - 1]
RECURSIVE UndoChainOK(_, _, _)
UndoChainOK(h, b, n) ==
    IF n = 1 THEN TRUE
    ELSE LET u == undo_move(b)
         IN  /\ u.res = "Ok"
             /\ Len(u.board.moves) = Len(b.moves) - 1
             /\ u.board.grid = h[n - 1].grid
             /\ u.board.blocks = h[n - 1].blocks
             /\ UndoChainOK(h, u.board, n - 1)

\* C13: after N successful move_block calls on a board whose log was empty,
\* the k-th undo_move succeeds, shortens the log by one entry and restores
\* grid and blocks to what they were right after move N - k.
C13_UndoRestores ==
    moves = <<>> =>
        \A h \in Histories(<< Cur >>, MaxMoves) : UndoChainOK(h, h[Len(h)], Len(h))

\* the last of at least two logged moves has just been undone
C13_Witness ==
    /\ lastOp = [op |-> "undo_move", res |-> "Ok"]
    /\ Len(moves) >= 1

\* C14: undo_move on a board whose log is empty fails with NoMovesToUndo
\* in every state and leaves the board unchanged.
C14_EmptyLogUndo == moves = <<>> => undo_move(Cur) = Ret(Cur, "NoMovesToUndo")

\* C15: on every reachable board in state Solving or Solved, reset returns
\* Ok and leaves an empty log and state ReadyToSolve; after accepted moves
\* on a board whose log was empty, reset gives back the grid that board had.
C15_ResetReady ==
    /\ state \in {"Solving", "Solved"} =>
           /\ reset(Cur).res = "Ok"
           /\ reset(Cur).board.moves = <<>>
           /\ reset(Cur).board.state = "ReadyToSolve"
    /\ moves = <<>> =>
           \A h \in Histories(<< Cur >>, MaxMoves) :
               Len(h) > 1 => reset(h[Len(h)]).board.grid = grid

\* every placement of a shape inside the grid
AllPlacements ==
    { PositionedNew(sh, r, c) : sh \in Shapes, r \in 0 .. MAX_ROW, c \in 0 .. MAX_COL }
    \ { Nil }

\* exactly one TwoByTwo block and exactly MIN_EMPTY_CELLS empty cells,
\* counted on the block list and the grid
ExactlyReady(b) ==
    /\ Cardinality({ i \in 1 .. Len(b.blocks) : b.blocks[i].block = "TwoByTwo" }) = 1
    /\ Cardinality({ c \in Cells : b.grid[c] = None }) = 2

\* C16: after a successful add_block, and after a successful change_block
\* to a different shape, the state is ReadyToSolve if the board has exactly
\* one TwoByTwo block and exactly two empty cells, and Building otherwise.
C16_BuildPromotion ==
    /\ \A pb \in AllPlacements :
           LET r == add_block(Cur, pb)
           IN  r.res = "Ok" =>
                   r.board.state = IF ExactlyReady(r.board) THEN "ReadyToSolve"
                                                            ELSE "Building"
    /\ \A idx \in 0 .. Len(blocks) - 1 :
           \A sh \in Shapes \ { blocks[idx + 1].block } :
               LET r == change_block(Cur, idx, sh)
               IN  r.res = "Ok" =>
                       r.board.state = IF ExactlyReady(r.board) THEN "ReadyToSolve"
                                                                ELSE "Building"

\* an add_block call has just completed the layout and promoted the board
C16_Witness ==
    /\ lastOp = [op |-> "add_block", res |-> "Ok"]
    /\ state = "ReadyToSolve"
    /\ ExactlyReady(Cur)

\* the TwoByTwo block of b has its min position on the goal cell (3, 1)
AtGoal(b) ==
    \E i \in 1 .. Len(b.blocks) :
        /\ b.blocks[i].block = "TwoByTwo"
        /\ b.blocks[i].min_position = [row |-> 3, col |-> 1]

\* C17: after every successful move_block the state is Solved if the
\* TwoByTwo block's min position is (3, 1) and Solving otherwise; it is
\* never ReadyToSolve.
C17_SolvePromotion ==
    lastOp = [op |-> "move_block", res |-> "Ok"] =>
        state = IF AtGoal(Cur) THEN "Solved" ELSE "Solving"

\* an accepted move has just brought the TwoByTwo block to the goal cell
C17_Witness ==
    /\ lastOp = [op |-> "move_block", res |-> "Ok"]
    /\ state = "Solved"
    /\ blocks[moves[Len(moves)].block_idx + 1].block = "TwoByTwo"

\* while layout is placed block by block on the empty board, the board is
\* ready after the last block and after no earlier one
ReadyOnlyWhenComplete(layout) ==
    \A k \in 0 .. Len(layout) :
        is_ready_to_solve(Build(BoardDefault, SubSeq(layout, 1, k))) = (k = Len(layout))

LayoutsReadyOnlyWhenComplete ==
    ReadyOnlyWhenComplete(LayoutA) /\ ReadyOnlyWhenComplete(LayoutSolved)

\* C18: on every reachable board is_ready_to_solve() is true iff blocks
\* holds exactly one TwoByTwo block and the grid has exactly two empty
\* cells; while a layout is built it becomes true only with the last block.
C18_Readiness ==
    /\ is_ready_to_solve(Cur) = ExactlyReady(Cur)
    /\ LayoutsReadyOnlyWhenComplete

\* the second of two add_block calls has just made the board ready
C18_Witness ==
    /\ lastOp = [op |-> "add_block", res |-> "Ok"]
    /\ nops >= 2
    /\ is_ready_to_solve(Cur)
    /\ Len(blocks) = Len(LayoutA)

\* the number of cells a shape covers
CellCount(sh) == Cardinality(range(PositionedNew(sh, 0, 0)))

\* the error add_block and change_block give, in state st, to a block that
\* would leave fewer than MIN_EMPTY_CELLS empty cells
BudgetError(st) ==
    IF st \in {"Building", "ReadyToSolve"} THEN "BlockPlacementInvalid"
    ELSE "BoardStateInvalid"

\* C19 as stated: the grid always keeps at least two empty cells, and
\* add_block and change_block fail with BlockPlacementInvalid whenever
\* they would leave fewer.
C19_BudgetPlacementInvalid ==
    /\ CountNone(grid) >= MIN_EMPTY_CELLS
    /\ \A pb \in AllPlacements :
           CountNone(grid) - CellCount(pb.block) < MIN_EMPTY_CELLS =>
               add_block(Cur, pb).res = "BlockPlacementInvalid"
    /\ \A idx \in 0 .. Len(blocks) - 1 : \A sh \in Shapes :
           CountNone(grid) - (CellCount(sh) - CellCount(blocks[idx + 1].block))
               < MIN_EMPTY_CELLS =>
               change_block(Cur, idx, sh).res = "BlockPlacementInvalid"

\* C19 amended: the grid always keeps at least two empty cells; a block
\* that would leave fewer is refused by add_block and change_block, with
\* BlockPlacementInvalid on a Building or ReadyToSolve board and with
\* BoardStateInvalid on a Solving or Solved board, and the grid is unchanged.
C19_EmptyBudget ==
    /\ CountNone(grid) >= MIN_EMPTY_CELLS
    /\ \A pb \in AllPlacements :
           CountNone(grid) - CellCount(pb.block) < MIN_EMPTY_CELLS =>
               /\ add_block(Cur, pb).res = BudgetError(state)
               /\ add_block(Cur, pb).board.grid = grid
    /\ \A idx \in 0 .. Len(blocks) - 1 : \A sh \in Shapes :
           CountNone(grid) - (CellCount(sh) - CellCount(blocks[idx + 1].block))
               < MIN_EMPTY_CELLS =>
               /\ change_block(Cur, idx, sh).res = BudgetError(state)
               /\ change_block(Cur, idx, sh).board.grid = grid

\* add_block has just refused a block although cells for it are empty
C19_Witness ==
    /\ lastOp = [op |-> "add_block", res |-> "BlockPlacementInvalid"]
    /\ CountNone(grid) = MIN_EMPTY_CELLS
    /\ \E pb \in AddInputs : is_range_empty(grid, range(pb))

Reverse(sq) == [i \in 1 .. Len(sq) |-> sq[Len(sq) + 1 - i]]

\* the board add_block builds from the empty board with the caller's
\* blocks placed in the opposite order
RebuiltReversed == Build(BoardDefault, Reverse(blocks))

\* C20: hash() depends on the grid only: a board built from the same
\* positioned blocks in another order, and boards reaching the same grid
\* through different move logs or states, have the same hash.
C20_HashCanonical ==
    /\ hash(RebuiltReversed) = hash(Cur)
    /\ moves = <<>> =>
           \A h1, h2 \in Histories(<< Cur >>, MaxMoves) :
               h1[Len(h1)].grid = h2[Len(h2)].grid =>
                   hash(h1[Len(h1)]) = hash(h2[Len(h2)])

\* a move and its inverse have brought the board back to the grid it had
\* with an empty log, and its blocks are listed in an order that differs
\* from the rebuilt board's
C20_Witness ==
    /\ Len(moves) = 2
    /\ moves[2] = FlatBoardMoveOpposite(moves[1])
    /\ RebuiltReversed.blocks # blocks
    /\ RebuiltReversed.grid = grid

\* the search has not been started: nothing was queued or marked as seen,
\* no level was opened and no worker was spawned
SearchNotStarted ==
    /\ queue = <<>>
    /\ seen = {}
    /\ level = 0
    /\ \A t \in Threads : workers[t] = IdleWorker

\* C21: for a board that is not ready to solve, solve returns an error
\* (neither a move list nor "no solution") and never starts a search.
C21_NotReadyError ==
    ~is_ready_to_solve(Cur) =>
        /\ spc \in {"idle", "done"}
        /\ spc = "done" => result.kind = "Err"
        /\ SearchNotStarted

\* solve has returned for a board that is one block short of ready
C21_Witness ==
    /\ ~is_ready_to_solve(Cur)
    /\ blocks # <<>>
    /\ spc = "done"
    /\ result.kind = "Err"

\* C22 (as stated): for a board that is ready and already at the goal,
\* solve returns Ok with an empty move list in each of the states
\* ReadyToSolve, Solving and Solved.
C22_SolvedInputEmptyList ==
    (is_ready_to_solve(Cur) /\ is_solved(Cur) /\ spc = "done") =>
        result = Some(<<>>)

\* ------------------------------------------------ solver on the fixtures
\* the four literal layouts of the solver tests
ClassicBlocks ==
    << PositionedNew("TwoByOne", 0, 0), PositionedNew("TwoByTwo", 0, 1),
       PositionedNew("TwoByOne", 0, 3), PositionedNew("TwoByOne", 2, 0),
       PositionedNew("OneByTwo", 2, 1), PositionedNew("TwoByOne", 2, 3),
       PositionedNew("OneByOne", 3, 1), PositionedNew("OneByOne", 3, 2),
       PositionedNew("OneByOne", 4, 0), PositionedNew("OneByOne", 4, 3) >>

EasyBlocks ==
    << PositionedNew("OneByOne", 0, 0), PositionedNew("TwoByTwo", 0, 1),
       PositionedNew("OneByOne", 0, 3), PositionedNew("OneByOne", 1, 0),
       PositionedNew("OneByOne", 1, 3), PositionedNew("TwoByOne", 2, 0),
       PositionedNew("OneByOne", 2, 1), PositionedNew("OneByOne", 2, 2),
       PositionedNew("TwoByOne", 2, 3), PositionedNew("OneByOne", 3, 1),
       PositionedNew("OneByOne", 3, 2), PositionedNew("OneByOne", 4, 0),
       PositionedNew("OneByOne", 4, 3) >>

MediumBlocks ==
    << PositionedNew("OneByOne", 0, 0), PositionedNew("TwoByTwo", 0, 1),
       PositionedNew("OneByOne", 0, 3), PositionedNew("OneByOne", 1, 0),
       PositionedNew("OneByOne", 1, 3), PositionedNew("TwoByOne", 2, 0),
       PositionedNew("TwoByOne", 2, 1), PositionedNew("OneByTwo", 2, 2),
       PositionedNew("OneByTwo", 3, 2), PositionedNew("OneByTwo", 4, 1) >>

HardBlocks ==
    << PositionedNew("OneByOne", 0, 0), PositionedNew("TwoByTwo", 0, 1),
       PositionedNew("OneByOne", 0, 3), PositionedNew("TwoByOne", 1, 0),
       PositionedNew("TwoByOne", 1, 3), PositionedNew("OneByTwo", 2, 1),
       PositionedNew("OneByOne", 3, 0), PositionedNew("OneByOne", 3, 3),
       PositionedNew("OneByTwo", 3, 1), PositionedNew("OneByTwo", 4, 1) >>

\* test_board_is_optimal: Board::default() and one add_block per block
FixtureBoards ==
    { Build(BoardDefault, layout) :
        layout \in { ClassicBlocks, EasyBlocks, MediumBlocks, HardBlocks } }

ShapeSeq == << "OneByOne", "OneByTwo", "TwoByOne", "TwoByTwo" >>

ShapeIdx(block) == CHOOSE i \in 1 .. Len(ShapeSeq) : ShapeSeq[i] = block

\* The occupancy of a board as a sorted tuple with one number per block,
\* (row * COLS + col) * 4 + shape. It determines the grid, and two boards
\* with the same grid have the same tuple whatever the order of their
\* blocks: the tuple stands for hash() of the board.
Occupancy(bl) ==
    SortSeq([i \in 1 .. Len(bl) |->
                (bl[i].min_position.row * COLS + bl[i].min_position.col) * 4
                + (ShapeIdx(bl[i].block) - 1)],
            LAMBDA x, y : x < y)

\* a board in state Solving with the given occupancy
BoardOf(occ) ==
    LET bl == [i \in 1 .. Len(occ) |->
                 PositionedNew(ShapeSeq[(occ[i] % 4) + 1],
                               (occ[i] \div 4) \div COLS, (occ[i] \div 4) % COLS)]
    IN  BoardNew("Solving", bl, GridOf(bl), <<>>)

\* process_sub_level for one popped board: the occupancies reached by
\* move_block_unchecked over every entry of get_next_moves
Children(occ) ==
    LET board == BoardOf(occ)
    IN  { Occupancy(move_block_unchecked(board, move_.block_idx,
                                         move_.row_diff, move_.col_diff).board.blocks) :
            move_ \in SeqRange(FlattenMoves(get_next_moves(board), 1)) }

\* the popped board is in state Solved: move_block_unchecked promoted it
SolvedOccupancy(occ) == is_solved(BoardOf(occ))

FixtureInit ==
    /\ \E b \in FixtureBoards :
          /\ state = b.state
          /\ blocks = b.blocks
          /\ grid = b.grid
          /\ moves = b.moves
    /\ lastOp = [op |-> "new", res |-> "Ok"]
    /\ nops = 0
    /\ SolverIdle

\* solve up to the first `while` test of parallel_bfs. In this
\* specification the queue holds the current level as a set of
\* occupancies and seen holds the occupancies inserted so far.
FixtureSolve ==
    /\ spc = "idle"
    /\ LET start_board == [Cur EXCEPT !.moves = <<>>]
           cs == change_state(start_board, "Solving")
           root == change_state(cs.board, "Solved").board
       IN  IF cs.res # "Ok"
           THEN /\ result' = [kind |-> "Err", len |-> 0]
                /\ spc' = "done"
                /\ UNCHANGED << queue, seen >>
           ELSE /\ seen' = { Occupancy(root.blocks) }
                /\ queue' = { Occupancy(root.blocks) }
                /\ spc' = "loop"
                /\ UNCHANGED result
    /\ UNCHANGED << workers, joinIdx, level >>
    /\ UNCHANGED boardVars

\* one level of parallel_bfs with its workers run to completion: every
\* board of the level is popped and expanded, and each occupancy not yet
\* in seen is inserted and pushed once. Every board pushed at level k
\* carries a log of k moves.
FixtureLevel ==
    /\ spc = "loop"
    /\ queue # {}
    /\ ~ \E occ \in queue : SolvedOccupancy(occ)
    /\ LET pushed == (UNION { Children(occ) : occ \in queue }) \ seen
       IN  /\ queue' = pushed
           /\ seen' = seen \cup pushed
    /\ level' = level + 1
    /\ UNCHANGED << spc, workers, joinIdx, result >>
    /\ UNCHANGED boardVars

\* a worker pops a Solved board and its moves are returned (their number
\* is the level), or the queue is empty and None is returned
FixtureReturn ==
    /\ spc = "loop"
    /\ \/ /\ \E occ \in queue : SolvedOccupancy(occ)
          /\ result' = [kind |-> "Some", len |-> level]
       \/ /\ queue = {}
          /\ result' = [kind |-> "None", len |-> 0]
    /\ spc' = "done"
    /\ UNCHANGED << queue, seen, workers, joinIdx, level >>
    /\ UNCHANGED boardVars

FixtureNext ==
    \/ FixtureSolve
    \/ FixtureLevel
    \/ FixtureReturn

FixtureSpec == FixtureInit /\ [][FixtureNext]_vars

\* the move counts the tests expect
ExpectedMoves(layout) ==
    CASE layout = ClassicBlocks -> 81
      [] layout = EasyBlocks -> 17
      [] layout = MediumBlocks -> 40
      [] layout = HardBlocks -> 120

\* C23: for the four literal layouts of the solver tests, solve returns a
\* move list of exactly the stated length: classic 81, easy 17, medium 40,
\* hard 120 (the search does not run past that level without returning).
C23_FixtureLengths ==
    /\ level <= ExpectedMoves(blocks)
    /\ spc = "done" => result = [kind |-> "Some", len |-> ExpectedMoves(blocks)]

\* solve has returned for the thirteen-block easy layout
C23_Witness ==
    /\ blocks = EasyBlocks
    /\ spc = "done"
    /\ result = [kind |-> "Some", len |-> 17]

\* C24 (as stated): in state Building or ReadyToSolve, change_block(idx, s)
\* with a valid idx whose block already has shape s returns Ok and leaves
\* state, blocks, grid and move log exactly as they were.
C24_SameShapeNoOp ==
    state \in {"Building", "ReadyToSolve"} =>
        \A idx \in 0 .. Len(blocks) - 1 :
            change_block(Cur, idx, blocks[idx + 1].block) = Ret(Cur, "Ok")

\* C25 (as stated): the move list solve returns for a ready board is a
\* valid solution for every ready board with the same grid occupancy (the
\* same hash), whatever the order of its blocks list: replayed on it with
\* move_block every move is accepted and the final board is solved.
C25_CacheSound ==
    (/\ spc = "done" /\ result.kind = "Some"
     /\ hash(RebuiltReversed) = hash(Cur) /\ is_ready_to_solve(RebuiltReversed)) =>
            /\ Replay(RebuiltReversed, result.moves).res = "Ok"
            /\ is_solved(Replay(RebuiltReversed, result.moves).board)

\* ------------------------------------------------------------- randomizer
\* get_cells_free: the indices of the empty cells, in ascending order
get_cells_free(b) == { c \in Cells : b.grid[c] = None }

\* get_random_free_cell: free_cells[i] for a random index i. The runs
\* followed here draw index 0, the lowest free cell; what an iteration does
\* at the other free cells is examined at every board they reach.
RandomFreeCells(b) ==
    { c \in get_cells_free(b) : \A d \in get_cells_free(b) : c <= d }

\* blocks.shuffle(rng) followed by the `seen` filter: the three distinct
\* shapes of the array in the order of their first occurrence
ShuffledShapes ==
    { << "OneByOne", "TwoByOne", "OneByTwo" >>, << "OneByOne", "OneByTwo", "TwoByOne" >>,
      << "TwoByOne", "OneByOne", "OneByTwo" >>, << "TwoByOne", "OneByTwo", "OneByOne" >>,
      << "OneByTwo", "OneByOne", "TwoByOne" >>, << "OneByTwo", "TwoByOne", "OneByOne" >> }

\* the `for block in &blocks` loop: the first shape that PositionedBlock::new
\* and add_block accept at the position is placed
RECURSIVE TryShapes(_, _, _, _)
TryShapes(b, position, order, k) ==
    IF k > Len(order) THEN Ret(b, "NotPlaced")
    ELSE LET positioned_block == PositionedNew(order[k], position.row, position.col)
         IN  IF positioned_block = Nil THEN TryShapes(b, position, order, k + 1)
             ELSE LET r == add_block(b, positioned_block)
                  IN  IF r.res = "Ok" THEN r
                      ELSE TryShapes(r.board, position, order, k + 1)

RandomizerInit ==
    /\ state = BoardDefault.state
    /\ blocks = BoardDefault.blocks
    /\ grid = BoardDefault.grid
    /\ moves = BoardDefault.moves
    /\ lastOp = [op |-> "new", res |-> "Ok"]
    /\ nops = 0
    /\ SolverIdle

\* add_two_by_two_block: rows 0..=1, columns 0..=2, both results unwrapped
AddTwoByTwoBlock ==
    /\ spc = "idle"
    /\ \E row \in 0 .. 1, col \in 0 .. 2 :
          LET two_by_two_block == PositionedNew("TwoByTwo", row, col)
              r == IF two_by_two_block = Nil THEN Ret(Cur, "Panic")
                   ELSE add_block(Cur, two_by_two_block)
          IN  /\ state' = r.board.state
              /\ blocks' = r.board.blocks
              /\ grid' = r.board.grid
              /\ moves' = r.board.moves
              /\ IF r.res = "Ok"
                 THEN /\ spc' = "remaining"
                      /\ UNCHANGED lastOp
                 ELSE /\ spc' = "done"
                      /\ lastOp' = [op |-> "randomize", res |-> "Panic"]
    /\ UNCHANGED << nops, queue, seen, workers, joinIdx, level, result >>

\* one iteration of the while loop of add_remaining_blocks; nops counts
\* the iterations
AddRemainingBlocks ==
    /\ spc = "remaining"
    /\ nops < MaxIterations
    /\ Cardinality(get_cells_free(Cur)) > MIN_EMPTY_CELLS
    /\ \E free_cell \in RandomFreeCells(Cur), order \in ShuffledShapes :
          LET position == PositionNew(free_cell \div COLS, free_cell % COLS)
              r == IF position = Nil THEN Ret(Cur, "NotPlaced")
                   ELSE TryShapes(Cur, position, order, 1)
          IN  /\ state' = r.board.state
              /\ blocks' = r.board.blocks
              /\ grid' = r.board.grid
              /\ moves' = r.board.moves
    /\ nops' = nops + 1
    /\ UNCHANGED << lastOp, solverVars >>

\* the loop is left and randomize returns what change_state returns
RandomizeReturn ==
    /\ spc = "remaining"
    /\ Cardinality(get_cells_free(Cur)) <= MIN_EMPTY_CELLS
    /\ LET cs == change_state(Cur, "ReadyToSolve")
       IN  /\ state' = cs.board.state
           /\ lastOp' = [op |-> "randomize", res |-> cs.res]
    /\ spc' = "done"
    /\ UNCHANGED << blocks, grid, moves, nops, queue, seen, workers, joinIdx, level, result >>

RandomizerNext ==
    \/ AddTwoByTwoBlock
    \/ AddRemainingBlocks
    \/ RandomizeReturn

\* randomize is one sequential call: it keeps taking steps until it returns
RandomizerSpec == RandomizerInit /\ [][RandomizerNext]_vars /\ WF_vars(RandomizerNext)

\* what the claim says of the board randomize leaves
RandomizedBoard ==
    /\ lastOp = [op |-> "randomize", res |-> "Ok"]
    /\ Cardinality({ i \in 1 .. Len(blocks) : blocks[i].block = "TwoByTwo" }) = 1
    /\ CountNone(grid) = MIN_EMPTY_CELLS
    /\ state = "ReadyToSolve"

\* one loop iteration at the free cell c with the shapes tried in the given
\* order places exactly one block and keeps MIN_EMPTY_CELLS cells empty
IterationPlaces(c, order) ==
    LET r == TryShapes(Cur, PositionNew(c \div COLS, c % COLS), order, 1)
    IN  /\ r.res = "Ok"
        /\ Len(r.board.blocks) = Len(blocks) + 1
        /\ CountNone(r.board.grid) < CountNone(grid)
        /\ CountNone(r.board.grid) >= MIN_EMPTY_CELLS

StepDiffs == { << row_diff(StepALL[k]), col_diff(StepALL[k]) >> : k \in 1 .. Len(StepALL) }

\* the net displacements of the sequences of one or two steps each of which
\* brings block i onto in-grid cells that are empty or its own
SlideDisplacements(i) ==
    LET one == { d \in StepDiffs : SafeAt(i, d[1], d[2]) }
        two == UNION { { << d[1] + e[1], d[2] + e[2] >> :
                           e \in { f \in StepDiffs : SafeAt(i, d[1] + f[1], d[2] + f[2]) } } :
                       d \in one }
    IN  one \cup two

\* C27: for every block of every board, the displacements get_next_moves
\* lists are exactly the non-zero net displacements of the sequences of one
\* or two steps that keep the block on in-grid cells that are empty or its
\* own; the reversal pruning loses none and the zero displacement is never
\* listed.
C27_GeneratorComplete ==
    \A i \in 1 .. Len(blocks) :
        NextSet(Cur, i - 1) = SlideDisplacements(i) \ { << 0, 0 >> }

\* a block of more than one cell can slide two cells in a line, over cells
\* it covered before the first step, and can also turn a corner
C27_Witness ==
    \E i \in 1 .. Len(blocks) :
        /\ blocks[i].block # "OneByOne"
        /\ \E d \in NextSet(Cur, i - 1) : Abs(d[1]) + Abs(d[2]) = 2 /\ d[1] * d[2] = 0
        /\ \E d \in NextSet(Cur, i - 1) : d[1] # 0 /\ d[2] # 0
        /\ << 0, 0 >> \in SlideDisplacements(i)

\* C28 (as stated): when parallel_bfs returns a goal board, every worker
\* thread spawned for the current level has been joined (has terminated).
C28_JoinedBeforeReturn ==
    (spc = "done" /\ result.kind = "Some") =>
        \A t \in Threads : workers[t].pc \in {"idle", "done"}

\* the boards that have been or are about to be pushed and are not yet
\* popped: the queue, then the boards of the workers between their insert
\* into the visited set and their push_back
AwaitingPop ==
    queue \o SelectSeq([t \in Threads |-> workers[t].board],
                       LAMBDA b : \E t \in Threads :
                                     workers[t].pc = "push" /\ workers[t].board = b)

\* a worker decides to push exactly when its atomic test-and-insert adds a
\* grid that the visited set did not hold
InsertIsNew ==
    \A t \in Threads :
        (workers[t].pc # "push" /\ workers'[t].pc = "push") =>
            /\ hash(workers'[t].board) \notin seen
            /\ seen' = seen \cup { hash(workers'[t].board) }

\* the queue grows only by the board of a worker that has just inserted it
PushFollowsInsert ==
    (spc # "idle" /\ Len(queue') > Len(queue)) =>
        \E t \in Threads :
            /\ workers[t].pc = "push"
            /\ queue' = Append(queue, workers[t].board)

\* C29: during one solve, under every interleaving of the workers, each
\* distinct grid occupancy is pushed onto the shared queue at most once: the
\* root's hash is in the visited set from the start, the visited set never
\* loses an element, a board is pushed only after a test-and-insert that
\* found its grid new, and the boards waiting in the queue have pairwise
\* different grids that are all in the visited set.
C29_PushedOnce ==
    /\ [](spc \in {"loop", "join"} => hash([Cur EXCEPT !.moves = <<>>]) \in seen)
    /\ [](\A i, j \in 1 .. Len(AwaitingPop) :
              /\ hash(AwaitingPop[i]) \in seen
              /\ i # j => AwaitingPop[i].grid # AwaitingPop[j].grid)
    /\ [][seen \subseteq seen' /\ InsertIsNew /\ PushFollowsInsert]_vars

\* two workers of one level have each inserted a new grid and are about to
\* push, while a third child waits in the queue
C29_Witness ==
    /\ Cardinality({ t \in Threads : workers[t].pc = "push" }) >= 2
    /\ Len(AwaitingPop) >= 3
    /\ Cardinality(seen) >= 4

\* the rectangle of pb translated by (rd, cd) is not inside the grid
LeavesGrid(pb, rd, cd) ==
    \E p \in range(pb) :
        \/ p[1] + rd \notin 0 .. ROWS - 1
        \/ p[2] + cd \notin 0 .. COLS - 1

\* C30 (as stated): for every positioned block and every step or
\* displacement whose translated rectangle would leave the grid, do_step and
\* move_by return BlockPlacementInvalid and leave the block's min_position
\* and max_position exactly as they were.
C30_FailedTranslationUnchanged ==
    \A i \in 1 .. Len(blocks) :
        /\ \A k \in 1 .. Len(StepALL) :
              LeavesGrid(blocks[i], row_diff(StepALL[k]), col_diff(StepALL[k])) =>
                  do_step(blocks[i], StepALL[k])
                      = [pb |-> blocks[i], res |-> "BlockPlacementInvalid"]
        /\ \A d \in Displacements :
              LeavesGrid(blocks[i], d[1], d[2]) =>
                  move_by(blocks[i], d[1], d[2])
                      = [pb |-> blocks[i], res |-> "BlockPlacementInvalid"]

\* C31: in state Building or ReadyToSolve, remove_block(idx) with a valid idx
\* succeeds, empties exactly the cells of block idx, shortens the block list
\* by one with the former last block at position idx and every other block at
\* its old index, leaves the move log alone and leaves the state Building.
C31_RemoveEffect ==
    state \in {"Building", "ReadyToSolve"} =>
        \A idx \in 0 .. Len(blocks) - 1 :
            LET r == remove_block(Cur, idx)
                n == Len(blocks)
            IN  /\ r.res = "Ok"
                /\ \A c \in Cells :
                       r.board.grid[c] = IF Covers(blocks[idx + 1], c) THEN None ELSE grid[c]
                /\ Len(r.board.blocks) = n - 1
                /\ \A k \in 1 .. n - 1 :
                       r.board.blocks[k] = IF k = idx + 1 THEN blocks[n] ELSE blocks[k]
                /\ r.board.moves = moves
                /\ r.board.state = "Building"

\* the first block of a ready nine-block board was removed: the former last
\* block (the TwoByTwo) now stands at index 0
C31_Witness ==
    /\ lastOp.op = "remove_block"
    /\ lastOp.res = "Ok"
    /\ state = "Building"
    /\ Len(blocks) = 8
    /\ blocks[1] = LayoutA[9]
    /\ blocks[2] = LayoutA[2]
    /\ grid[0] = None

\* a call of one of the four operations has just returned an error value
FailedCall ==
    /\ nops' = nops + 1
    /\ lastOp'.op \in {"add_block", "change_block", "remove_block", "move_block"}
    /\ lastOp'.res \notin {"Ok", "Panic"}

\* C32: whenever add_block, change_block, remove_block or move_block returns
\* an error, the board's state, block list and move log are exactly what
\* they were before the call.
C32_FailedCallKeepsBoard ==
    [][ FailedCall => /\ state' = state
                      /\ blocks' = blocks
                      /\ moves' = moves ]_vars

\* the number of TwoByTwo blocks in a block list
TwoByTwoCount(bl) == Cardinality({ i \in 1 .. Len(bl) : bl[i].block = "TwoByTwo" })

\* C33: outside Building the board has exactly one TwoByTwo block and
\* exactly two empty cells, and a call of move_block or undo_move never
\* changes the number of blocks or the number of empty cells.
C33_ReadyOutsideBuilding ==
    /\ [](state \in {"ReadyToSolve", "Solving", "Solved"} =>
              /\ TwoByTwoCount(blocks) = 1
              /\ CountNone(grid) = MIN_EMPTY_CELLS)
    /\ [][ (nops' = nops + 1 /\ lastOp'.op \in {"move_block", "undo_move"}) =>
              /\ Len(blocks') = Len(blocks)
              /\ CountNone(grid') = CountNone(grid) ]_vars

\* a move was made and another one undone on a board that add_block completed
C33_Witness ==
    /\ lastOp.op = "undo_move"
    /\ lastOp.res = "Ok"
    /\ state = "Solving"
    /\ Len(moves) = 1
    /\ TwoByTwoCount(blocks) = 1
    /\ CountNone(grid) = MIN_EMPTY_CELLS

\* C34: a non-empty move log implies state Solving or Solved; while moves
\* are logged every add_block, change_block and remove_block is refused
\* (with BoardStateInvalid, leaving the board as it was), and every logged
\* move names an index below the number of blocks.
C34_LogOnlyWhileSolving ==
    moves # <<>> =>
        /\ state \in {"Solving", "Solved"}
        /\ \A k \in 1 .. Len(moves) : moves[k].block_idx \in 0 .. Len(blocks) - 1
        /\ \A pb \in AddInputs : add_block(Cur, pb) = Ret(Cur, "BoardStateInvalid")
        /\ \A idx \in 0 .. Len(blocks) :
              /\ remove_block(Cur, idx) = Ret(Cur, "BoardStateInvalid")
              /\ \A new_block \in Shapes :
                    change_block(Cur, idx, new_block) = Ret(Cur, "BoardStateInvalid")

\* a building operation was refused on a board with two logged moves
C34_Witness ==
    /\ Len(moves) = 2
    /\ lastOp.op \in {"add_block", "change_block", "remove_block"}
    /\ lastOp.res = "BoardStateInvalid"

\* C35: in state Solved the board satisfies is_solved(): a TwoByTwo block
\* has min position (WINNING_ROW, WINNING_COL) = (3, 1), and the grid shows
\* it there.
C35_SolvedMeansSolved ==
    state = "Solved" =>
        /\ is_solved(Cur)
        /\ \E i \in 1 .. Len(blocks) :
              /\ blocks[i].block = "TwoByTwo"
              /\ blocks[i].min_position = [row |-> 3, col |-> 1]
        /\ \A c \in {3 * COLS + 1, 3 * COLS + 2, 4 * COLS + 1, 4 * COLS + 2} :
              grid[c] = "TwoByTwo"

\* an undo on a Solved board that left the TwoByTwo block on the goal
C35_Witness ==
    /\ state = "Solved"
    /\ lastOp.op = "undo_move"
    /\ lastOp.res = "Ok"

\* ------------------------------------------------- solver under fairness
\* one step of the worker thread t, and one step of the thread that called
\* solve
WorkerStep(t) == WorkerPop(t) \/ WorkerInsert(t) \/ WorkerPush(t)

MainStep == Solve \/ LevelStart \/ Join

\* thread t has been spawned and has not returned or panicked: each of its
\* three steps is enabled exactly at its own position
WorkerRunnable(t) == workers[t].pc \in {"pop", "expand", "push"}

\* the calling thread can take a step: it has not returned, and when it
\* waits in handle.join() the joined thread has ended
MainRunnable ==
    \/ spc \in {"idle", "loop"}
    \/ spc = "join" /\ workers[joinIdx].pc \in {"done", "panic"}

\* weak fairness of thread t, WF_vars(WorkerStep(t)), with ENABLED written
\* out as WorkerRunnable(t): a runnable thread is eventually scheduled
WorkerFair(t) == []<>(~WorkerRunnable(t)) \/ []<><< WorkerStep(t) >>_vars

\* the operating system schedules every runnable thread again and again
SolverFairSpec ==
    /\ SolverInit
    /\ [][SolverNext]_vars
    /\ WF_vars(MainStep)
    /\ \A t \in Threads : WorkerFair(t)

\* the block lists reachable from the frontier by legal compound moves
RECURSIVE ReachableFrom(_, _)
ReachableFrom(visited, frontier) ==
    IF frontier = {} THEN visited
    ELSE LET nxt == (UNION { LegalNext(bl) : bl \in frontier }) \ visited
         IN  ReachableFrom(visited \cup nxt, nxt)

\* the distinct grid occupancies reachable from the caller's board
ReachableGrids == { GridOf(bl) : bl \in ReachableFrom({ blocks }, { blocks }) }

\* boards enqueued so far: every grid in the visited set was pushed once,
\* except those whose worker stands between its insert and its push_back
Enqueued == Cardinality(seen) - Cardinality({ t \in Threads : workers[t].pc = "push" })

\* some thread can take a step unless solve has returned
NoThreadStuck == spc = "done" \/ MainRunnable \/ \E t \in Threads : WorkerRunnable(t)

\* C36 (as stated): for every ready board and every fair scheduling of the
\* threads, solve eventually returns, and what it returns is a move list or
\* "no solution"; before that some thread can always take a step (no
\* deadlock, no panic); the boards ever enqueued are at most the distinct
\* grid occupancies reachable from the input.
C36_SolveTerminates ==
    /\ <>(spc = "done")
    /\ []((is_ready_to_solve(Cur) /\ spc = "done") => result.kind \in {"Some", "None"})
    /\ [] NoThreadStuck
    /\ [](seen \subseteq ReachableGrids /\ Enqueued <= Cardinality(ReachableGrids))
    /\ [][InsertIsNew /\ PushFollowsInsert]_vars

RECURSIVE SumSeq(_)
SumSeq(sq) == IF sq = <<>> THEN 0 ELSE Head(sq) + SumSeq(Tail(sq))

\* pop_front calls thread t has still to make in the current level
RemainingPops(t) ==
    IF workers[t].pc = "pop" THEN workers[t].batch
    ELSE IF workers[t].pc \in {"expand", "push"} THEN workers[t].batch - 1
    ELSE 0

\* the boards of the current level (depth level - 1) still in the queue
LevelBoardsQueued ==
    Cardinality({ i \in 1 .. Len(queue) : Len(queue[i].moves) = level - 1 })

\* the batch sizes computed for a level of n boards sum to n and none
\* exceeds ceil(n / NUM_THREADS)
BatchesCover(n) ==
    LET sizes == BatchSizes(BatchSize(n), n, NUM_THREADS)
    IN  /\ Len(sizes) = NUM_THREADS
        /\ SumSeq(sizes) = n
        /\ \A t \in Threads : NUM_THREADS * sizes[t] < n + NUM_THREADS

\* C37: the batch sizes handed to the four workers of a level sum to the
\* queue length at the start of the level, each at most ceil(level_size/4);
\* under every interleaving the pops the workers still have to make never
\* exceed the level's boards left in the queue, so no worker pops from an
\* empty queue (no thread panics) and only boards of the level are popped;
\* when every worker has been joined without a goal the queue holds exactly
\* the boards pushed during the level.
C37_BatchAccounting ==
    /\ [](\A n \in 0 .. ROWS * COLS : BatchesCover(n))
    /\ [][ (spc = "loop" /\ spc' = "join") =>
              /\ SumSeq([t \in Threads |-> workers'[t].batch]) = Len(queue)
              /\ \A t \in Threads :
                    NUM_THREADS * workers'[t].batch < Len(queue) + NUM_THREADS ]_vars
    /\ [](level >= 1 =>
              /\ SumSeq([t \in Threads |-> RemainingPops(t)]) <= LevelBoardsQueued
              /\ (\A t \in Threads : workers[t].ret = Nil) =>
                     SumSeq([t \in Threads |-> RemainingPops(t)]) = LevelBoardsQueued)
    /\ [](spc # "panic" /\ \A t \in Threads : workers[t].pc # "panic")
    /\ [][ Len(queue') < Len(queue) =>
              /\ queue' = Tail(queue)
              /\ Len(Head(queue).moves) = level - 1 ]_vars
    /\ []((spc = "loop" /\ level >= 1) =>
              \A i \in 1 .. Len(queue) : Len(queue[i].moves) = level)

\* a level of five boards was split into batches of two, two, one and
\* none: the first worker expands the second board of its batch, the third
\* has not popped its only board yet and the fourth has returned at once
C37_Witness ==
    /\ spc = "join"
    /\ level = 2
    /\ workers[1].pc = "expand" /\ workers[1].batch = 1
    /\ workers[2].batch = 2
    /\ workers[3].pc = "pop" /\ workers[3].batch = 1
    /\ workers[4].pc = "done" /\ workers[4].board = Nil

\* sq ends with the sequence suffix
IsSuffix(suffix, sq) ==
    /\ Len(suffix) <= Len(sq)
    /\ suffix = SubSeq(sq, Len(sq) - Len(suffix) + 1, Len(sq))

\* move_block_unchecked followed by undo_move_unchecked on board b
MoveThenUndo(b, m) ==
    undo_move_unchecked(move_block_unchecked(b, m.block_idx, m.row_diff, m.col_diff).board)

\* C38: while a worker expands a popped board, each move_block_unchecked
\* followed by undo_move_unchecked gives back exactly the board it started
\* from (grid, block positions, move log and state); between two moves the
\* worker's board is the popped parent, so the moves still to apply are the
\* tail of the list get_next_moves gives for it; solve never changes the
\* caller's board.
C38_ExpansionRestores ==
    /\ [](\A t \in Threads :
            workers[t].pc = "expand" =>
                LET parent == workers[t].board
                    listed == FlattenMoves(get_next_moves(parent), 1)
                IN  /\ IsSuffix(workers[t].todo, listed)
                    /\ \A k \in 1 .. Len(listed) :
                          MoveThenUndo(parent, listed[k]) = Ret(parent, "Ok"))
    /\ [](\A t \in Threads :
            workers[t].pc = "push" =>
                LET parent == undo_move_unchecked(workers[t].board).board
                    move_ == Head(workers[t].todo)
                IN  /\ IsSuffix(workers[t].todo, FlattenMoves(get_next_moves(parent), 1))
                    /\ move_block_unchecked(parent, move_.block_idx, move_.row_diff,
                                            move_.col_diff).board = workers[t].board)
    /\ [][ \A t \in Threads :
             (workers[t].pc \in {"expand", "push"} /\ workers'[t].pc = "expand") =>
                 workers'[t].board = IF workers[t].pc = "expand" THEN workers[t].board
                                     ELSE undo_move_unchecked(workers[t].board).board ]_vars
    /\ [][ UNCHANGED << state, blocks, grid, moves >> ]_vars

\* a worker has applied and undone at least two moves of a board of depth
\* one or more, one of them leading to the goal, and has moves left
C38_Witness ==
    \E t \in Threads :
        /\ workers[t].pc = "expand"
        /\ Len(workers[t].board.moves) >= 1
        /\ workers[t].todo # <<>>
        /\ Len(workers[t].todo) + 2 <= Len(FlattenMoves(get_next_moves(workers[t].board), 1))
        /\ \E i \in 1 .. Len(queue) : queue[i].state = "Solved"

\* the four goal cells of the board's grid hold the TwoByTwo block
GoalGrid(b) ==
    \A c \in { WINNING_ROW * COLS + WINNING_COL, WINNING_ROW * COLS + WINNING_COL + 1,
               (WINNING_ROW + 1) * COLS + WINNING_COL,
               (WINNING_ROW + 1) * COLS + WINNING_COL + 1 } : b.grid[c] = WINNING_BLOCK

\* the board's state is Solved exactly when it is at the goal
SolvedIffGoal(b) ==
    /\ (b.state = "Solved") <=> is_solved(b)
    /\ (b.state = "Solved") <=> GoalGrid(b)
    /\ b.state \in {"Solving", "Solved"}

\* C39: every board on the solver's queue, and every board a worker is
\* about to push, has state Solved if and only if is_solved() holds for it
\* (its grid shows the TwoByTwo block on the goal cells); hence the boards a
\* worker returns at pop time are at the goal and the boards it expands are
\* not, and a root that is at the goal is returned without being queued.
C39_StateIsGoalTest ==
    /\ \A i \in 1 .. Len(queue) : SolvedIffGoal(queue[i])
    /\ \A t \in Threads :
          /\ workers[t].pc = "push" => SolvedIffGoal(workers[t].board)
          /\ workers[t].ret # Nil =>
                 /\ workers[t].ret.state = "Solved"
                 /\ GoalGrid(workers[t].ret)
          /\ workers[t].pc = "expand" =>
                 /\ workers[t].board.state = "Solving"
                 /\ ~GoalGrid(workers[t].board)
    /\ (spc # "idle" /\ result.kind # "Err" /\ GoalGrid(Cur)) =>
          /\ seen = {}
          /\ result = Some(<<>>)

\* in the second level a worker has popped and returned the goal board
\* while boards of the same depth that are not at the goal wait in the queue
\* and another worker expands one of them
C39_Witness ==
    /\ level = 2
    /\ \E i \in 1 .. Len(queue) : queue[i].state = "Solving" /\ Len(queue[i].moves) = 1
    /\ \E t \in Threads : workers[t].ret # Nil /\ Len(workers[t].ret.moves) = 1
    /\ \E t \in Threads : workers[t].pc = "expand"

\* the root of the search: the caller's board with an empty move log, in
\* state Solving
SearchRoot == [Cur EXCEPT !.moves = <<>>, !.state = "Solving"]

\* least number of legal compound moves from the frontier to a block list
\* with the target grid, -1 if there is none
RECURSIVE GridDepth(_, _, _, _)
GridDepth(visited, frontier, target, d) ==
    IF \E bl \in frontier : GridOf(bl) = target THEN d
    ELSE IF frontier = {} THEN -1
    ELSE LET nxt == (UNION { LegalNext(bl) : bl \in frontier }) \ visited
         IN  GridDepth(visited \cup nxt, nxt, target, d + 1)

\* the log of b, replayed on the root through move_block, is accepted move
\* by move and ends in b's grid, block list and log
ReplayOK(b) ==
    LET r == Replay(SearchRoot, b.moves)
    IN  /\ r.res = "Ok"
        /\ r.board.grid = b.grid
        /\ r.board.blocks = b.blocks
        /\ r.board.moves = b.moves

\* C40: every board is placed on the solver's queue with a move log whose
\* length is the board's BFS depth (the least number of legal moves from the
\* root's grid to its grid, which is the number of the level that pushes
\* it) and which, replayed from the root, yields exactly the board's grid;
\* the queue grows only by such a push and its boards keep their logs; the
\* root is queued with an empty log and the caller's grid, also when the
\* caller's board has logged moves.
C40_PathBookkeeping ==
    /\ [](\A t \in Threads :
            workers[t].pc = "push" =>
                /\ ReplayOK(workers[t].board)
                /\ Len(workers[t].board.moves) = level
                /\ GridDepth({ blocks }, { blocks }, workers[t].board.grid, 0) = level)
    /\ [](\A i \in 1 .. Len(queue) :
            /\ ReplayOK(queue[i])
            /\ Len(queue[i].moves) \in {level - 1, level}
            /\ Len(queue[i].moves) >= 0)
    /\ []((spc = "loop" /\ level = 0) => queue = << SearchRoot >>)
    /\ [][ spc # "idle" =>
              \/ queue' = queue
              \/ queue # <<>> /\ queue' = Tail(queue)
              \/ \E t \in Threads : /\ workers[t].pc = "push"
                                     /\ queue' = Append(queue, workers[t].board) ]_vars

\* boards three moves deep wait in the queue
C40_Witness ==
    /\ spc = "join"
    /\ \E i \in 1 .. Len(queue) : Len(queue[i].moves) = 3
    /\ \E t \in Threads : workers[t].pc = "push"

====
